---------------------------- MODULE Spec2Model ----------------------------
(***************************************************************************)
(* Model of the leave-fractionation calculation engine of the              *)
(* `fractionnement` application: the calendar utilities (utils.py), the    *)
(* services (services/calcul_service.py, services/calendrier_service.py),  *)
(* the forms (forms.py) and the views of views.py.                         *)
(*                                                                         *)
(* Conventions.                                                            *)
(*  - A date is its proleptic Gregorian ordinal (datetime.date.toordinal): *)
(*    Date(y, m, d) builds it, Year/Month/Day read it back, and            *)
(*    d + timedelta(days=n) is d + n.                                      *)
(*  - A Decimal number of days is an integer number of tenths of a day:    *)
(*    Decimal('0.5') is 5 and Decimal(n) is 10 * n.                        *)
(*  - The Django cache is `cache`, a function from the years whose key     *)
(*    jours_feries_<annee> is present to the cached list; the other keys   *)
(*    (<prefix>_<user>_<annee>) are in `cache_api`.                        *)
(*  - heures_semaine is in hundredths of an hour, quotite_travail in       *)
(*    thousandths, and a number of annual leave days in hundredths.        *)
(*  - A table with unique_together (user, annee) is a function of that     *)
(*    key, which stands for the pk; a leave period is named by its place   *)
(*    in `periodes`, and place 0 names no period.                          *)
(*  - A failure of the database is an input of the call: `panne_base` is   *)
(*    a query that raises, `pannes` the rows whose computation raises.     *)
(***************************************************************************)
EXTENDS Integers, Sequences, FiniteSets, TLC

VARIABLES
    pc,         \* position of the caller: which call comes next
    args,       \* the arguments of the call under way
    ret,        \* value returned by the first call
    ret2,       \* value returned by the repeated call
    cache,      \* django.core.cache: annee -> cached list of holidays
    periodes,   \* table PeriodeConge, rows in the order of Meta.ordering
    parametres, \* table ParametresAnnee: <<user, annee>> -> jours_ouvres_ou_ouvrables
    cache_api,  \* django.core.cache, the other keys: key -> cached value
    appels,     \* the concurrent calls of get_jours_feries: process -> its state
    cycles      \* table CycleHebdomadaire: <<user, annee>> -> the other fields

vars == <<pc, args, ret, ret2, cache, periodes, parametres, cache_api, appels, cycles>>

---------------------------------------------------------------------------
(* Program constants *)

ANNEE_MIN == 2020
ANNEE_MAX == 2100

\* `annee: int = None`: the absent year argument
None == 0

\* Decimal('0.5'), in tenths of a day
DEMI == 5

\* Decimal(n) for an integer n, in tenths of a day
Decimal(n) == 10 * n

\* int(x) for a Decimal x (in tenths): truncation toward zero
int(x) == IF x >= 0 THEN x \div 10 ELSE 0 - ((0 - x) \div 10)

Max2(a, b) == IF a >= b THEN a ELSE b
Min2(a, b) == IF a <= b THEN a ELSE b

---------------------------------------------------------------------------
(* Bounds of the model *)

\* calculer_jours_fractionnement is tried on -MaxJoursHors..MaxJoursHors
MaxJoursHors == 100

\* Years tried beyond ANNEE_MIN..ANNEE_MAX on each side
ExtraYears == 20

\* A counted range ends at most MaxDuree days after, and at most MaxRecul
\* days before, the day it starts
MaxDuree == 16
MaxRecul == 2

\* Quarter-hours of heures_semaine below 35 h and above 39 h, and thousandths
\* of quotite_travail below 0.5 and above 1.0
\* Concurrent calls of get_jours_feries
NbAppels == 2

MargeHeures == 4
MargeQuotite == 10

\* Rows of PeriodeConge and of ParametresAnnee created before a calculation
MaxPeriodes == 3
MaxParametres == 1

\* SpecFormulaires: at most MaxLignes rows of CycleHebdomadaire and as many
\* of ParametresAnnee
MaxLignes == 2

\* SpecPeriodes: at most MaxPeriodesFormulaire rows of PeriodeConge
MaxPeriodesFormulaire == 2

\* SpecVues: at most MaxPeriodesVues rows of PeriodeConge
MaxPeriodesVues == 1

---------------------------------------------------------------------------
(* datetime.date, as used by utils.py *)

is_leap(y) == (y % 4 = 0) /\ ((y % 100 # 0) \/ (y % 400 = 0))

DAYS_IN_MONTH == <<31, 28, 31, 30, 31, 30, 31, 31, 30, 31, 30, 31>>
DAYS_BEFORE_MONTH == <<0, 31, 59, 90, 120, 151, 181, 212, 243, 273, 304, 334>>

days_in_month(y, m) == IF m = 2 /\ is_leap(y) THEN 29 ELSE DAYS_IN_MONTH[m]

days_before_year(y) ==
    (y - 1) * 365 + ((y - 1) \div 4) - ((y - 1) \div 100) + ((y - 1) \div 400)

days_before_month(y, m) ==
    DAYS_BEFORE_MONTH[m] + (IF m > 2 /\ is_leap(y) THEN 1 ELSE 0)

\* date(y, m, d) raises ValueError unless this holds
IsValidDate(y, m, d) ==
    /\ y >= 1 /\ y <= 9999
    /\ m >= 1 /\ m <= 12
    /\ d >= 1 /\ d <= days_in_month(y, m)

\* date(y, m, d), as its ordinal
Date(y, m, d) == days_before_year(y) + days_before_month(y, m) + d

\* The (year, month, day) of an ordinal: datetime._ord2ymd
YMD(ordinal) ==
    LET n0   == ordinal - 1
        n400 == n0 \div 146097
        r400 == n0 % 146097
        n100 == r400 \div 36524
        r100 == r400 % 36524
        n4   == r100 \div 1461
        r4   == r100 % 1461
        n1   == r4 \div 365
        n    == r4 % 365
        year == n400 * 400 + 1 + n100 * 100 + n4 * 4 + n1
    IN  IF n1 = 4 \/ n100 = 4
        THEN [year |-> year - 1, month |-> 12, day |-> 31]
        ELSE
          LET leapyear == (n1 = 3) /\ (n4 # 24 \/ n100 = 3)
              m0  == (n + 50) \div 32
              p0  == DAYS_BEFORE_MONTH[m0] + (IF m0 > 2 /\ leapyear THEN 1 ELSE 0)
              mon == IF p0 > n THEN m0 - 1 ELSE m0
              pre == IF p0 > n
                     THEN p0 - (DAYS_IN_MONTH[mon]
                                + (IF mon = 2 /\ leapyear THEN 1 ELSE 0))
                     ELSE p0
          IN  [year |-> year, month |-> mon, day |-> n - pre + 1]

Year(d)  == YMD(d).year
Month(d) == YMD(d).month
Day(d)   == YMD(d).day

\* d.weekday(): 0 = Monday ... 6 = Sunday
weekday(d) == (d + 6) % 7

---------------------------------------------------------------------------
(* utils.py: public holidays *)
(*                                                                         *)
(* A function that reads the cache returns the record [ret, cache]: the    *)
(* value it returns and the cache it leaves.  A value computed once and    *)
(* used several times in the code is handed to the operator that models    *)
(* the rest of the function.                                               *)

get_jours_feries_fixes(annee) ==
    << Date(annee, 1, 1),  Date(annee, 5, 1),  Date(annee, 5, 8),
       Date(annee, 7, 14), Date(annee, 8, 15), Date(annee, 11, 1),
       Date(annee, 11, 11), Date(annee, 12, 25) >>

\* Mutant: the day of the month taken without its + 1
paques_mois_jour_sans_plus_un(annee) ==
    LET a == annee % 19
        b == annee \div 100
        c == annee % 100
        d == b \div 4
        e == b % 4
        f == (b + 8) \div 25
        g == (b - f + 1) \div 3
        h == (19 * a + b - d - g + 15) % 30
        i == c \div 4
        k == c % 4
        l == (32 + 2 * e + 2 * i - h - k) % 7
        m == (a + 11 * h + 22 * l) \div 451
    IN  [mois |-> (h + l - 7 * m + 114) \div 31,
         jour |-> (h + l - 7 * m + 114) % 31]

\* Mutant: the correction 7 * m of the late Easters left out
paques_mois_jour_sans_correction(annee) ==
    LET a == annee % 19
        b == annee \div 100
        c == annee % 100
        d == b \div 4
        e == b % 4
        f == (b + 8) \div 25
        g == (b - f + 1) \div 3
        h == (19 * a + b - d - g + 15) % 30
        i == c \div 4
        k == c % 4
        l == (32 + 2 * e + 2 * i - h - k) % 7
    IN  [mois |-> (h + l + 114) \div 31,
         jour |-> ((h + l + 114) % 31) + 1]

\* The (mois, jour) computed by calculer_paques before it builds the date
paques_mois_jour(annee) ==
    LET a == annee % 19
        b == annee \div 100
        c == annee % 100
        d == b \div 4
        e == b % 4
        f == (b + 8) \div 25
        g == (b - f + 1) \div 3
        h == (19 * a + b - d - g + 15) % 30
        i == c \div 4
        k == c % 4
        l == (32 + 2 * e + 2 * i - h - k) % 7
        m == (a + 11 * h + 22 * l) \div 451
    IN  [mois |-> (h + l - 7 * m + 114) \div 31,
         jour |-> ((h + l - 7 * m + 114) % 31) + 1]

\* return date(annee, mois, jour)
date_mois_jour(annee, mj) == Date(annee, mj.mois, mj.jour)

\* Whether date(annee, mois, jour) raises ValueError
date_mois_jour_invalide(annee, mj) == ~IsValidDate(annee, mj.mois, mj.jour)

calculer_paques(annee) == date_mois_jour(annee, paques_mois_jour(annee))

\* sorted(list)
sorted(s) == SortSeq(s, LAMBDA x, y : x < y)

\* Mutant: the list of get_jours_feries_variables, Good Friday included
liste_jours_feries_avec_vendredi_saint(annee, paques) ==
    sorted(get_jours_feries_fixes(annee)
           \o << paques - 2, paques, paques + 1, paques + 39, paques + 50 >>)

\* The fixed holidays extended with the four dates after paques, sorted
liste_jours_feries(annee, paques) ==
    sorted(get_jours_feries_fixes(annee)
           \o << paques, paques + 1, paques + 39, paques + 50 >>)

\* The list get_jours_feries builds on a cache miss
calcul_jours_feries(annee) == liste_jours_feries(annee, calculer_paques(annee))

\* Mutant: the key does not hold the year, every entry is overwritten
cache_set_cle_sans_annee(c, annee, jours_feries) ==
    [ret |-> jours_feries,
     cache |-> [y \in DOMAIN c \cup {annee} |-> jours_feries]]

\* cache.set(cache_key, jours_feries, ...); return jours_feries
cache_set(c, annee, jours_feries) ==
    [ret |-> jours_feries,
     cache |-> [y \in DOMAIN c \cup {annee} |->
                   IF y = annee THEN jours_feries ELSE c[y]]]

\* get_jours_feries(annee) run against the cache c
get_jours_feries(c, annee) ==
    IF annee \in DOMAIN c
    THEN [ret |-> c[annee], cache |-> c]
    ELSE cache_set(c, annee, calcul_jours_feries(annee))

\* set(list), and `x in list`
SetOf(s) == { s[i] : i \in DOMAIN s }

est_jour_ouvre(d) == weekday(d) < 5

est_jour_ouvrable(d) == weekday(d) < 6

---------------------------------------------------------------------------
(* utils.py: the day counters *)

\* if annee is None: annee = date_debut.year
annee_effective(annee_arg, date_debut) ==
    IF annee_arg = None THEN Year(date_debut) ELSE annee_arg

\* set(get_jours_feries(annee)) if exclure_feries else set(), as the list read
jours_feries_a_exclure(c, exclure_feries, annee) ==
    IF exclure_feries
    THEN get_jours_feries(c, annee)
    ELSE [ret |-> <<>>, cache |-> c]

\* The while loop of compter_jours_ouvres: current, date_fin, jours_feries, compteur
RECURSIVE boucle_ouvres(_, _, _, _)
boucle_ouvres(current, date_fin, jours_feries, compteur) ==
    IF current <= date_fin
    THEN boucle_ouvres(current + 1, date_fin, jours_feries,
                       IF est_jour_ouvre(current) /\ current \notin jours_feries
                       THEN compteur + 1 ELSE compteur)
    ELSE compteur

\* compter_jours_ouvres once the holidays g = [ret, cache] have been read
compte_ouvres(date_debut, date_fin, g) ==
    [ret   |-> boucle_ouvres(date_debut, date_fin, SetOf(g.ret), 0),
     cache |-> g.cache]

\* Mutant: the holidays of the year of each end of the range are excluded
compter_jours_ouvres_deux_annees(c, date_debut, date_fin, exclure_feries, annee_arg) ==
    [ret |-> boucle_ouvres(date_debut, date_fin,
                 IF exclure_feries
                 THEN SetOf(calcul_jours_feries(annee_effective(annee_arg, date_debut)))
                      \cup SetOf(calcul_jours_feries(Year(date_fin)))
                 ELSE {}, 0),
     cache |-> jours_feries_a_exclure(c, exclure_feries,
                   annee_effective(annee_arg, date_debut)).cache]

compter_jours_ouvres(c, date_debut, date_fin, exclure_feries, annee_arg) ==
    compte_ouvres(date_debut, date_fin,
                  jours_feries_a_exclure(c, exclure_feries,
                      annee_effective(annee_arg, date_debut)))

\* The while loop of compter_jours_ouvrables
RECURSIVE boucle_ouvrables(_, _, _, _)
boucle_ouvrables(current, date_fin, jours_feries, compteur) ==
    IF current <= date_fin
    THEN boucle_ouvrables(current + 1, date_fin, jours_feries,
                          IF est_jour_ouvrable(current) /\ current \notin jours_feries
                          THEN compteur + 1 ELSE compteur)
    ELSE compteur

\* compter_jours_ouvrables once the holidays g = [ret, cache] have been read
compte_ouvrables(date_debut, date_fin, g) ==
    [ret   |-> boucle_ouvrables(date_debut, date_fin, SetOf(g.ret), 0),
     cache |-> g.cache]

compter_jours_ouvrables(c, date_debut, date_fin, exclure_feries, annee_arg) ==
    compte_ouvrables(date_debut, date_fin,
                     jours_feries_a_exclure(c, exclure_feries,
                         annee_effective(annee_arg, date_debut)))

---------------------------------------------------------------------------
(* services/calcul_service.py *)

\* heures_semaine is an integer number of hundredths of an hour, quotite_-
\* travail an integer number of thousandths, and a number of days of annual
\* leave an integer number of hundredths of a day.  The quotients are exact:
\* on the values of the specifications, the 28 digits of the Decimal context
\* give the same rounded results.
HEURES_SEMAINE_MIN == 3500
HEURES_SEMAINE_MAX == 3900
QUOTITE_TRAVAIL_MIN == 500
QUOTITE_TRAVAIL_MAX == 1000
DUREE_LEGALE_ANNUELLE == 1607
SEMAINES_ANNUELLES == 52
CONGES_ANNUELS_BASE == 2500

\* The quotient q of n by d, rounded to the nearest integer, to the even one
\* when n / d is half-way (ROUND_HALF_EVEN), r being the remainder
arrondi_pair(q, r, d) ==
    IF 2 * r < d THEN q
    ELSE IF 2 * r > d THEN q + 1
    ELSE IF q % 2 = 0 THEN q ELSE q + 1

\* round(n / d) of a Decimal n / d >= 0, and quantize of the same
round(n, d) == arrondi_pair(n \div d, n % d, d)

\* Mutant: int(rtt_decimal), the fraction dropped
rtt_arrondi_tronque(heures_supplementaires, heures_semaine, quotite_travail) ==
    (heures_supplementaires * quotite_travail) \div (heures_semaine * 1000)

\* Mutant: the overtime divided by the quota
rtt_arrondi_divise(heures_supplementaires, heures_semaine, quotite_travail) ==
    round(heures_supplementaires * 1000, heures_semaine * quotite_travail)

\* int(round((heures_supplementaires / heures_semaine) * quotite_travail))
rtt_arrondi(heures_supplementaires, heures_semaine, quotite_travail) ==
    round(heures_supplementaires * quotite_travail, heures_semaine * 1000)

\* calculer_rtt_annuels from heures_supplementaires on
rtt_des_heures_supplementaires(heures_supplementaires, heures_semaine, quotite_travail) ==
    IF heures_supplementaires <= 0
    THEN 0
    ELSE rtt_arrondi(heures_supplementaires, heures_semaine, quotite_travail)

calculer_rtt_annuels(heures_semaine, quotite_travail) ==
    IF heures_semaine <= HEURES_SEMAINE_MIN
    THEN 0
    ELSE rtt_des_heures_supplementaires(
             heures_semaine * SEMAINES_ANNUELLES - 100 * DUREE_LEGALE_ANNUELLE,
             heures_semaine, quotite_travail)

\* Mutant: thirty days of leave when the days are 'ouvrables'
calculer_conges_annuels_trente(quotite_travail, jours_ouvres_ou_ouvrables) ==
    IF jours_ouvres_ou_ouvrables = "ouvrables"
    THEN round(3000 * quotite_travail, 1000)
    ELSE round(CONGES_ANNUELS_BASE * quotite_travail, 1000)

\* (conges_base * quotite_travail).quantize(Decimal('0.01'))
calculer_conges_annuels(quotite_travail, jours_ouvres_ou_ouvrables) ==
    round(CONGES_ANNUELS_BASE * quotite_travail, 1000)

\* Mutant: the thresholds of the earlier rule (3 to 5 days, 6 days and more)
calculer_jours_fractionnement_seuils_3_6(jours_hors_periode) ==
    IF jours_hors_periode < 3 THEN 0
    ELSE IF 3 <= jours_hors_periode /\ jours_hors_periode <= 5 THEN 1
    ELSE 2

calculer_jours_fractionnement(jours_hors_periode) ==
    IF jours_hors_periode < 5 THEN 0
    ELSE IF 5 <= jours_hors_periode /\ jours_hors_periode <= 7 THEN 1
    ELSE 2

\* est_jour_ouvrable / est_jour_ouvre of a boundary date, by mode
jour_ouvre_selon(jours_ouvres_ou_ouvrables, d) ==
    IF jours_ouvres_ou_ouvrables = "ouvrables"
    THEN est_jour_ouvrable(d)
    ELSE est_jour_ouvre(d)

\* if date in jours_feries: compte = False
hors_jours_feries(d, g) == [ret |-> d \notin SetOf(g.ret), cache |-> g.cache]

\* Mutant: a boundary date counts as soon as its weekday does, holiday or not
est_compte_sans_feries(c, d, jours_ouvres_ou_ouvrables, exclure_feries, annee) ==
    [ret |-> jour_ouvre_selon(jours_ouvres_ou_ouvrables, d), cache |-> c]

\* debut_compte / fin_compte of compter_jours_periode: whether the boundary
\* date d was counted
est_compte(c, d, jours_ouvres_ou_ouvrables, exclure_feries, annee) ==
    IF exclure_feries /\ jour_ouvre_selon(jours_ouvres_ou_ouvrables, d)
    THEN hors_jours_feries(d, get_jours_feries(c, annee))
    ELSE [ret |-> jour_ouvre_selon(jours_ouvres_ou_ouvrables, d), cache |-> c]

\* Mutant: the half-day is taken off a period that starts in the morning
retire_demi_debut_inverse(total_jours, debut_compte, debut_type) ==
    IF debut_compte /\ debut_type = "matin"
    THEN total_jours - DEMI ELSE total_jours

\* Si le jour de debut est compte et commence l'apres-midi, on enleve 0.5
retire_demi_debut(total_jours, debut_compte, debut_type) ==
    IF debut_compte /\ debut_type = "apres_midi"
    THEN total_jours - DEMI ELSE total_jours

\* Si le jour de fin est compte et finit le matin, on enleve 0.5
retire_demi_fin(total_jours, fin_compte, fin_type) ==
    IF fin_compte /\ fin_type = "matin"
    THEN total_jours - DEMI ELSE total_jours

\* Mutant: the total returned as it is
plancher_zero_absent(total_jours) == total_jours

\* max(Decimal('0.0'), total_jours)
plancher_zero(total_jours) == Max2(Decimal(0), total_jours)

\* compter_jours_periode from `fin_compte` on: fin = [ret, cache] is fin_compte
periode_apres_fin(fin_type, total_jours, fin) ==
    [ret |-> plancher_zero(retire_demi_fin(total_jours, fin.ret, fin_type)),
     cache |-> fin.cache]

\* compter_jours_periode from `debut_compte` on: debut = [ret, cache] is
\* debut_compte
periode_apres_debut(date_fin, jours_ouvres_ou_ouvrables, exclure_feries, annee, debut_type, fin_type, total_jours, debut) ==
    periode_apres_fin(fin_type,
        retire_demi_debut(total_jours, debut.ret, debut_type),
        est_compte(debut.cache, date_fin, jours_ouvres_ou_ouvrables,
                   exclure_feries, annee))

\* compter_jours_periode from `total_jours = Decimal(jours_pleins)` on:
\* pleins = [ret, cache] is jours_pleins
periode_apres_pleins(date_debut, date_fin, jours_ouvres_ou_ouvrables, exclure_feries, annee, debut_type, fin_type, pleins) ==
    periode_apres_debut(date_fin, jours_ouvres_ou_ouvrables, exclure_feries,
        annee, debut_type, fin_type, Decimal(pleins.ret),
        est_compte(pleins.cache, date_debut, jours_ouvres_ou_ouvrables,
                   exclure_feries, annee))

\* compter_jours_periode once annee is no longer None
periode_avec_annee(c, date_debut, date_fin, jours_ouvres_ou_ouvrables, exclure_feries, annee, debut_type, fin_type) ==
    periode_apres_pleins(date_debut, date_fin, jours_ouvres_ou_ouvrables,
        exclure_feries, annee, debut_type, fin_type,
        IF jours_ouvres_ou_ouvrables = "ouvrables"
        THEN compter_jours_ouvrables(c, date_debut, date_fin, exclure_feries, annee)
        ELSE compter_jours_ouvres(c, date_debut, date_fin, exclure_feries, annee))

compter_jours_periode(c, date_debut, date_fin, jours_ouvres_ou_ouvrables, exclure_feries, annee_arg, debut_type, fin_type) ==
    periode_avec_annee(c, date_debut, date_fin, jours_ouvres_ou_ouvrables,
        exclure_feries, annee_effective(annee_arg, date_debut),
        debut_type, fin_type)

\* jours_hors += compter_jours_periode(...)
ajoute(jours_hors, r) == [ret |-> jours_hors + r.ret, cache |-> r.cache]

\* Mutant: the first sub-period always ends with the real fin_type
sous_periode_avril_fin_reelle(c, periode, annee, jours_type, md, fin) ==
    IF md <= 4
    THEN compter_jours_periode(c, periode.date_debut, fin, jours_type, TRUE, annee,
             periode.debut_type, periode.fin_type)
    ELSE [ret |-> Decimal(0), cache |-> c]

\* Sous-periode 1 : debut jusqu'au 30 avril (si applicable); fin is
\* date_fin_sous_periode
sous_periode_avril(c, periode, annee, jours_type, md, fin) ==
    IF md <= 4
    THEN compter_jours_periode(c, periode.date_debut, fin, jours_type, TRUE, annee,
             periode.debut_type,
             IF fin = periode.date_fin THEN periode.fin_type ELSE "apres_midi")
    ELSE [ret |-> Decimal(0), cache |-> c]

\* Sous-periode 2 : 1er novembre jusqu'a la fin (si applicable), added to the
\* first sub-period s1; debut is date_debut_sous_periode
sous_periode_novembre(s1, periode, annee, jours_type, mf, debut) ==
    IF mf >= 11
    THEN ajoute(s1.ret,
             compter_jours_periode(s1.cache, debut, periode.date_fin, jours_type,
                 TRUE, annee,
                 IF debut = periode.date_debut THEN periode.debut_type ELSE "matin",
                 periode.fin_type))
    ELSE s1

\* Cas 3 : periode qui chevauche les deux periodes
chevauchement(c, periode, annee, jours_type, md, mf) ==
    sous_periode_novembre(
        sous_periode_avril(c, periode, annee, jours_type, md,
                           Min2(periode.date_fin, Date(annee, 4, 30))),
        periode, annee, jours_type, mf,
        Max2(periode.date_debut, Date(annee, 11, 1)))

\* periode_entiere_hors, from the months of date_debut and date_fin
periode_entiere_hors(md, mf) ==
    /\ \/ (md >= 11 /\ mf >= 11)
       \/ (md <= 4 /\ mf <= 4)
       \/ (md >= 11 /\ mf <= 4)
    /\ ~(md >= 5 /\ md <= 10)

\* Mutant: the second case counts the period, as the first case does
jours_hors_par_cas_deux_compte(c, periode, annee, jours_type, md, mf) ==
    IF periode_entiere_hors(md, mf) \/ (md >= 5 /\ mf <= 10)
    THEN compter_jours_periode(c, periode.date_debut, periode.date_fin, jours_type,
                               TRUE, annee, periode.debut_type, periode.fin_type)
    ELSE chevauchement(c, periode, annee, jours_type, md, mf)

\* The three cases of the loop body, md = date_debut.month, mf = date_fin.month
jours_hors_par_cas(c, periode, annee, jours_type, md, mf) ==
    IF periode_entiere_hors(md, mf)
    THEN compter_jours_periode(c, periode.date_debut, periode.date_fin, jours_type,
                               TRUE, annee, periode.debut_type, periode.fin_type)
    ELSE IF md >= 5 /\ mf <= 10
    THEN [ret |-> Decimal(0), cache |-> c]
    ELSE chevauchement(c, periode, annee, jours_type, md, mf)

\* The body of the loop of get_jours_hors_periode_principale for one period:
\* jours_hors
jours_hors_de_periode(c, periode, annee, jours_type) ==
    jours_hors_par_cas(c, periode, annee, jours_type,
                       Month(periode.date_debut), Month(periode.date_fin))

\* Mutant: the periods of every type of leave are selected
filtre_periodes_tous_types(table, user, annee) ==
    SelectSeq(table, LAMBDA p : /\ p.user = user
                                /\ p.annee_civile = annee)

\* PeriodeConge.objects.filter(user=user, annee_civile=annee, type_conge='annuel')
filtre_periodes(table, user, annee) ==
    SelectSeq(table, LAMBDA p : /\ p.user = user
                                /\ p.annee_civile = annee
                                /\ p.type_conge = "annuel")

\* jours_hors truncated to an integer number of days
tronque(r) == [ret |-> Decimal(int(r.ret)), cache |-> r.cache]

\* Mutant: the contribution of each period is truncated before it is added
RECURSIVE boucle_periodes_tronquees(_, _, _, _, _, _)
boucle_periodes_tronquees(rows, i, annee, jours_type, total, pannes) ==
    IF i > Len(rows)
    THEN total
    ELSE boucle_periodes_tronquees(rows, i + 1, annee, jours_type,
             IF i \in pannes
             THEN total
             ELSE ajoute(total.ret,
                         tronque(jours_hors_de_periode(total.cache, rows[i], annee,
                                                       jours_type))),
             pannes)

\* Mutant: the exception raised for one period ends the loop
RECURSIVE boucle_periodes_interrompue(_, _, _, _, _, _)
boucle_periodes_interrompue(rows, i, annee, jours_type, total, pannes) ==
    IF i > Len(rows) \/ i \in pannes
    THEN total
    ELSE boucle_periodes_interrompue(rows, i + 1, annee, jours_type,
             ajoute(total.ret,
                    jours_hors_de_periode(total.cache, rows[i], annee, jours_type)),
             pannes)

\* The for loop of get_jours_hors_periode_principale over rows[i..]:
\* total = [ret, cache] is total_jours_hors_periode and the cache so far.
\* pannes holds the places of the rows whose computation raises: the except
\* clause of the loop body logs the exception and goes on with the next row.
RECURSIVE boucle_periodes(_, _, _, _, _, _)
boucle_periodes(rows, i, annee, jours_type, total, pannes) ==
    IF i > Len(rows)
    THEN total
    ELSE boucle_periodes(rows, i + 1, annee, jours_type,
             IF i \in pannes
             THEN total
             ELSE ajoute(total.ret,
                         jours_hors_de_periode(total.cache, rows[i], annee,
                                               jours_type)),
             pannes)

\* Mutant: without ParametresAnnee the six-day convention is used
type_de_jours_defaut_ouvrables(params, user, annee) ==
    IF <<user, annee>> \in DOMAIN params THEN params[<<user, annee>>] ELSE "ouvrables"

\* ParametresAnnee.objects.get(user=user, annee=annee), 'ouvres' by default
type_de_jours(params, user, annee) ==
    IF <<user, annee>> \in DOMAIN params THEN params[<<user, annee>>] ELSE "ouvres"

\* return int(total_jours_hors_periode)
partie_entiere(total) == [ret |-> int(total.ret), cache |-> total.cache]

\* annee < ANNEE_MIN or annee > ANNEE_MAX
annee_invalide(annee) == annee < ANNEE_MIN \/ annee > ANNEE_MAX

\* Mutant: only the bounds are checked, not the type of annee
annee_refusee_sans_type(type_annee, annee) == annee_invalide(annee)

\* if not isinstance(annee, int) or annee < ANNEE_MIN or annee > ANNEE_MAX,
\* type_annee being the Python type of the argument
annee_refusee(type_annee, annee) == type_annee # "int" \/ annee_invalide(annee)

\* get_jours_hors_periode_principale(user, annee) for a valid annee, run on the
\* tables and the cache, when the database answers
get_jours_hors_periode_principale(c, table, params, user, annee, pannes) ==
    partie_entiere(
        boucle_periodes(filtre_periodes(table, user, annee), 1, annee,
                        type_de_jours(params, user, annee),
                        [ret |-> Decimal(0), cache |-> c], pannes))

\* The dict calculer_fractionnement_complet builds from jours_hors_periode
resultat_complet(h, annee) ==
    [ret |-> [jours_hors_periode |-> h.ret,
              jours_fractionnement |-> calculer_jours_fractionnement(h.ret),
              annee |-> annee],
     cache |-> h.cache]

\* calculer_fractionnement_complet(user, annee) for a valid annee, when the
\* database answers
calculer_fractionnement_complet(c, table, params, user, annee, pannes) ==
    resultat_complet(
        get_jours_hors_periode_principale(c, table, params, user, annee, pannes),
        annee)

---------------------------------------------------------------------------
(* services/calendrier_service.py and the two JSON views of views.py.  The *)
(* text of a date (isoformat) is the triple of its year, month and day; a  *)
(* key of the cache is the triple of its prefix, user id and year, the     *)
(* user id being None for the keys that have none; the rows of the model   *)
(* carry no primary key, so that the 'id' of a period is left out.         *)

\* d.isoformat()
isoformat(d) == <<Year(d), Month(d), Day(d)>>

\* noms_feries.get(jour_ferie.day, "Jour férié")
noms_feries_get(jour) ==
    CASE jour = 1 -> "Jour de l'an"
      [] jour = 5 -> "Fête du Travail"
      [] jour = 8 -> "Victoire en Europe"
      [] jour = 14 -> "Fête nationale"
      [] jour = 15 -> "Assomption"
      [] jour = 11 -> "Toussaint"
      [] jour = 25 -> "Noël"
      [] OTHER -> "Jour férié"

\* nom of get_jours_feries_list for one holiday; the last elif of the code
\* (month 5, day > 20) comes after the test month 5, day > 15 and is never
\* taken
nom_jour_ferie(jour_ferie) ==
    IF Month(jour_ferie) = 3 \/ Month(jour_ferie) = 4
    THEN (IF weekday(jour_ferie) = 0 THEN "Lundi de Pâques" ELSE "Pâques")
    ELSE IF Month(jour_ferie) = 5 /\ Day(jour_ferie) > 15
    THEN "Ascension"
    ELSE noms_feries_get(Day(jour_ferie))

\* The entry of get_jours_feries_list for one holiday
entree_jour_ferie(jour_ferie) ==
    [date |-> isoformat(jour_ferie), nom |-> nom_jour_ferie(jour_ferie),
     type |-> "ferie"]

\* get_jours_feries_list from the list r = [ret, cache] of get_jours_feries
jours_feries_formates(r) ==
    [ret |-> [i \in 1..Len(r.ret) |-> entree_jour_ferie(r.ret[i])],
     cache |-> r.cache]

\* get_jours_feries_list(annee)
get_jours_feries_list(c, annee) == jours_feries_formates(get_jours_feries(c, annee))

\* The key of the cache made of a prefix, a user id and a year
cle(prefixe, user, annee) == <<prefixe, user, annee>>

\* cache.set(key, value, timeout) on the keys other than jours_feries_<annee>
cache_api_set(ca, key, value) ==
    [k \in DOMAIN ca \cup {key} |-> IF k = key THEN value ELSE ca[k]]

\* get_vacances_zone_b_data(): an empty dict
get_vacances_zone_b_data == <<>>

\* get_vacances_zone_b(annee): vacances_data.get(annee, []) through the cache
get_vacances_zone_b(ca, annee) ==
    IF cle("vacances_zone_b", None, annee) \in DOMAIN ca
    THEN [ret |-> ca[cle("vacances_zone_b", None, annee)], cache_api |-> ca]
    ELSE [ret |-> get_vacances_zone_b_data,
          cache_api |-> cache_api_set(ca, cle("vacances_zone_b", None, annee),
                                      get_vacances_zone_b_data)]

\* get_vacances_zone_b_list from the list v = [ret, cache_api] of
\* get_vacances_zone_b, whose entries are (date_debut, date_fin, nom)
vacances_formatees(v) ==
    [ret |-> [i \in 1..Len(v.ret) |->
                 [date_debut |-> isoformat(v.ret[i][1]),
                  date_fin |-> isoformat(v.ret[i][2]),
                  nom |-> v.ret[i][3], type |-> "vacance"]],
     cache_api |-> v.cache_api]

\* get_vacances_zone_b_list(annee)
get_vacances_zone_b_list(ca, annee) == vacances_formatees(get_vacances_zone_b(ca, annee))

\* est_dans_periode_principale(d)
est_dans_periode_principale(d) ==
    \/ (Month(d) = 5 /\ Day(d) >= 1)
    \/ (6 <= Month(d) /\ Month(d) <= 9)
    \/ (Month(d) = 10 /\ Day(d) <= 31)

\* .order_by('date_debut') on rows kept in the order of Meta.ordering, which
\* begins with '-date_debut': the rows in reverse
order_by_date_debut(rows) == [i \in 1..Len(rows) |-> rows[Len(rows) + 1 - i]]

\* The entry of get_periodes_conges_user for one period
entree_periode(periode) ==
    [date_debut |-> isoformat(periode.date_debut),
     date_fin |-> isoformat(periode.date_fin),
     type_conge |-> periode.type_conge,
     nb_jours |-> periode.nb_jours,
     dans_periode_principale |-> est_dans_periode_principale(periode.date_debut),
     type |-> "conge"]

\* The entries of get_periodes_conges_user for the rows of the query
periodes_formatees(rows) == [i \in 1..Len(rows) |-> entree_periode(rows[i])]

\* get_periodes_conges_user(user, annee)
get_periodes_conges_user(table, user, annee) ==
    periodes_formatees(order_by_date_debut(
        SelectSeq(table, LAMBDA p : p.user = user /\ p.annee_civile = annee)))

\* The dict of get_calendrier_data, from its entries jf = [ret, cache] and
\* v = [ret, cache_api]
calendrier(annee, jf, v, periodes_conges) ==
    [ret |-> [annee |-> annee, jours_feries |-> jf.ret,
              vacances_zone_b |-> v.ret, periodes_conges |-> periodes_conges],
     cache |-> jf.cache, cache_api |-> v.cache_api]

\* get_calendrier_data(user, annee), when the database answers
get_calendrier_data(c, ca, table, user, annee) ==
    calendrier(annee, get_jours_feries_list(c, annee),
               get_vacances_zone_b_list(ca, annee),
               get_periodes_conges_user(table, user, annee))

\* JsonResponse(body, status=status)
JsonResponse(body, status) == [status |-> status, body |-> body]

---------------------------------------------------------------------------
(* Values shared by the specifications *)

\* No value returned yet
Rien == <<>>

\* The call returns r.ret and leaves the cache r.cache
Retourne(r) == ret' = r.ret /\ cache' = r.cache

\* The repeated call returns r.ret and leaves the cache r.cache
RetourneEncore(r) == ret2' = r.ret /\ cache' = r.cache

\* The cache after start-up: no key
CacheVide == <<>>

\* The tables after the migrations: no row
TablesVides == periodes = <<>> /\ parametres = <<>> /\ cycles = <<>>

\* No other key in the cache and no concurrent call under way
SansAppels == cache_api = CacheVide /\ appels = <<>>

---------------------------------------------------------------------------
(* SpecFrac: calculer_jours_fractionnement applied to an integer *)

InitFrac ==
    /\ pc = "frac"
    /\ args \in [jours_hors_periode : (0 - MaxJoursHors)..MaxJoursHors]
    /\ ret = Rien /\ ret2 = Rien
    /\ cache = CacheVide
    /\ TablesVides
    /\ SansAppels

AppelFractionnement ==
    /\ pc = "frac"
    /\ ret' = calculer_jours_fractionnement(args.jours_hors_periode)
    /\ pc' = "frac_fait"
    /\ UNCHANGED <<args, ret2, cache, periodes, parametres, cache_api, appels, cycles>>

NextFrac == AppelFractionnement

SpecFrac == InitFrac /\ [][NextFrac]_vars

---------------------------------------------------------------------------
(* SpecFeries: calculer_paques and get_jours_feries for one year, the      *)
(* second through the cache: a miss, a hit, and a miss again after the key *)
(* has expired; and the two lists of the calendar service for that year.   *)

AnneesFeries == (ANNEE_MIN - ExtraYears)..(ANNEE_MAX + ExtraYears)

InitFeries ==
    /\ pc = "feries"
    /\ args \in [annee : AnneesFeries]
    /\ ret = Rien /\ ret2 = Rien
    /\ cache = CacheVide
    /\ TablesVides
    /\ SansAppels

\* calculer_paques(annee): the date, or the ValueError of date()
AppelPaques ==
    /\ pc = "feries"
    /\ ret' = [exception |-> date_mois_jour_invalide(args.annee,
                                   paques_mois_jour(args.annee)),
                valeur |-> calculer_paques(args.annee)]
    /\ pc' = "paques_fait"
    /\ UNCHANGED <<args, ret2, cache, periodes, parametres, cache_api, appels, cycles>>

\* First get_jours_feries(annee)
AppelJoursFeries ==
    /\ pc = "feries"
    /\ Retourne(get_jours_feries(cache, args.annee))
    /\ pc' = "feries_fait"
    /\ UNCHANGED <<args, ret2, periodes, parametres, cache_api, appels, cycles>>

\* The key jours_feries_<annee> expires (or the cache is cleared)
ExpirationCache ==
    /\ pc = "feries_fait"
    /\ args.annee \in DOMAIN cache
    /\ cache' = [y \in DOMAIN cache \ {args.annee} |-> cache[y]]
    /\ UNCHANGED <<pc, args, ret, ret2, periodes, parametres, cache_api, appels, cycles>>

\* get_jours_feries(annee) again
RappelJoursFeries ==
    /\ pc = "feries_fait"
    /\ RetourneEncore(get_jours_feries(cache, args.annee))
    /\ pc' = "feries_refait"
    /\ UNCHANGED <<args, ret, periodes, parametres, cache_api, appels, cycles>>

\* get_jours_feries_list(annee)
AppelJoursFeriesList ==
    /\ pc = "feries"
    /\ Retourne(get_jours_feries_list(cache, args.annee))
    /\ pc' = "liste_faite"
    /\ UNCHANGED <<args, ret2, periodes, parametres, cache_api, appels, cycles>>

\* get_vacances_zone_b_list(annee)
AppelVacancesList ==
    /\ pc = "feries"
    /\ ret' = get_vacances_zone_b_list(cache_api, args.annee).ret
    /\ cache_api' = get_vacances_zone_b_list(cache_api, args.annee).cache_api
    /\ pc' = "vacances_faites"
    /\ UNCHANGED <<args, ret2, cache, periodes, parametres, appels, cycles>>

NextFeries ==
    \/ AppelPaques
    \/ AppelJoursFeries
    \/ ExpirationCache
    \/ RappelJoursFeries
    \/ AppelJoursFeriesList
    \/ AppelVacancesList

SpecFeries == InitFeries /\ [][NextFeries]_vars

---------------------------------------------------------------------------
(* SpecCompter: the day counters applied to one range of dates.  The range *)
(* is counted by compter_jours_ouvres, by compter_jours_ouvrables, or by   *)
(* compter_jours_periode, and compter_jours_periode is then called again   *)
(* with the same arguments, the holiday key being in the cache or expired. *)

\* Start dates tried: around Christmas and New Year, Easter, the holidays of
\* May, the days of the unit tests, and All Saints' Day and 11 November
DatesDebut ==
    (Date(2024, 12, 20)..Date(2025, 1, 2))
    \cup (Date(2024, 3, 28)..Date(2024, 4, 2))
    \cup (Date(2024, 4, 29)..Date(2024, 5, 9))
    \cup (Date(2024, 7, 1)..Date(2024, 7, 2))
    \cup (Date(2024, 10, 30)..Date(2024, 11, 11))

JOURS_CHOICES == {"ouvres", "ouvrables"}

DEMI_JOURNEE_CHOICES == {"matin", "apres_midi"}

InitCompter ==
    /\ pc = "compter"
    /\ \E d \in DatesDebut, n \in (0 - MaxRecul)..MaxDuree,
          jours \in JOURS_CHOICES, exclure \in BOOLEAN, decalage \in {-1, 0, 1} :
          args = [date_debut |-> d,
                  date_fin |-> d + n,
                  jours_ouvres_ou_ouvrables |-> jours,
                  exclure_feries |-> exclure,
                  annee |-> IF decalage = -1 THEN None ELSE Year(d) + decalage,
                  debut_type |-> "matin",
                  fin_type |-> "apres_midi"]
    /\ ret = Rien /\ ret2 = Rien
    /\ cache = CacheVide
    /\ TablesVides
    /\ SansAppels

AppelCompterOuvres ==
    /\ pc = "compter"
    /\ Retourne(compter_jours_ouvres(cache, args.date_debut, args.date_fin,
                                      args.exclure_feries, args.annee))
    /\ pc' = "ouvres_fait"
    /\ UNCHANGED <<args, ret2, periodes, parametres, cache_api, appels, cycles>>

AppelCompterOuvrables ==
    /\ pc = "compter"
    /\ Retourne(compter_jours_ouvrables(cache, args.date_debut, args.date_fin,
                                         args.exclure_feries, args.annee))
    /\ pc' = "ouvrables_fait"
    /\ UNCHANGED <<args, ret2, periodes, parametres, cache_api, appels, cycles>>

AppelCompterPeriode ==
    /\ pc = "compter"
    /\ \E dt \in DEMI_JOURNEE_CHOICES, ft \in DEMI_JOURNEE_CHOICES :
          /\ args' = [args EXCEPT !.debut_type = dt, !.fin_type = ft]
          /\ Retourne(compter_jours_periode(cache, args.date_debut, args.date_fin,
                                             args.jours_ouvres_ou_ouvrables,
                                             args.exclure_feries, args.annee, dt, ft))
    /\ pc' = "periode_fait"
    /\ UNCHANGED <<ret2, periodes, parametres, cache_api, appels, cycles>>

\* Every key of the cache expires
ExpirationCompter ==
    /\ pc = "periode_fait"
    /\ cache # CacheVide
    /\ cache' = CacheVide
    /\ UNCHANGED <<pc, args, ret, ret2, periodes, parametres, cache_api, appels, cycles>>

RappelCompterPeriode ==
    /\ pc = "periode_fait"
    /\ RetourneEncore(compter_jours_periode(cache, args.date_debut, args.date_fin,
                                             args.jours_ouvres_ou_ouvrables,
                                             args.exclure_feries, args.annee,
                                             args.debut_type, args.fin_type))
    /\ pc' = "periode_refait"
    /\ UNCHANGED <<args, ret, periodes, parametres, cache_api, appels, cycles>>

NextCompter ==
    \/ AppelCompterOuvres
    \/ AppelCompterOuvrables
    \/ AppelCompterPeriode
    \/ ExpirationCompter
    \/ RappelCompterPeriode

SpecCompter == InitCompter /\ [][NextCompter]_vars

---------------------------------------------------------------------------
(* SpecRtt: calculer_rtt_annuels and calculer_conges_annuels applied to a  *)
(* number of hours per week and a quota                                    *)

\* heures_semaine by quarter-hours around 35 h .. 39 h
HeuresSemaine ==
    { 25 * k : k \in (HEURES_SEMAINE_MIN \div 25 - MargeHeures)
                     ..(HEURES_SEMAINE_MAX \div 25 + MargeHeures) }

\* quotite_travail by thousandths around 0.5 .. 1.0
Quotites == (QUOTITE_TRAVAIL_MIN - MargeQuotite)..(QUOTITE_TRAVAIL_MAX + MargeQuotite)

InitRtt ==
    /\ pc = "rtt"
    /\ args \in [heures_semaine : HeuresSemaine, quotite_travail : Quotites,
                 jours_ouvres_ou_ouvrables : {"ouvres"}]
    /\ ret = Rien /\ ret2 = Rien
    /\ cache = CacheVide
    /\ TablesVides
    /\ SansAppels

AppelRttAnnuels ==
    /\ pc = "rtt"
    /\ ret' = calculer_rtt_annuels(args.heures_semaine, args.quotite_travail)
    /\ pc' = "rtt_fait"
    /\ UNCHANGED <<args, ret2, cache, periodes, parametres, cache_api, appels, cycles>>

AppelCongesAnnuels ==
    /\ pc = "rtt"
    /\ \E jours \in JOURS_CHOICES :
          /\ args' = [args EXCEPT !.jours_ouvres_ou_ouvrables = jours]
          /\ ret' = calculer_conges_annuels(args.quotite_travail, jours)
    /\ pc' = "conges_fait"
    /\ UNCHANGED <<ret2, cache, periodes, parametres, cache_api, appels, cycles>>

NextRtt == AppelRttAnnuels \/ AppelCongesAnnuels

SpecRtt == InitRtt /\ [][NextRtt]_vars

---------------------------------------------------------------------------
(* Spec: rows are created in the tables PeriodeConge and ParametresAnnee   *)
(* through the ORM, then get_jours_hors_periode_principale or              *)
(* calculer_fractionnement_complet is called for a user and a year.        *)

\* Primary keys of the users
Users == {1, 2}

\* A row of PeriodeConge
Periode(user, date_debut, debut_type, date_fin, fin_type, type_conge, annee_civile, nb_jours) ==
    [user |-> user, date_debut |-> date_debut, debut_type |-> debut_type,
     date_fin |-> date_fin, fin_type |-> fin_type, type_conge |-> type_conge,
     annee_civile |-> annee_civile, nb_jours |-> nb_jours]

\* The two periods of test_calcul_fractionnement_demi_journees
PeriodeNov4Nov8 ==
    Periode(1, Date(2024, 11, 4), "matin", Date(2024, 11, 8), "matin",
            "annuel", 2024, 45)

PeriodeNov8 ==
    Periode(1, Date(2024, 11, 8), "apres_midi", Date(2024, 11, 8), "apres_midi",
            "annuel", 2024, 5)

\* The two periods of test_calcul_fractionnement_complet_with_multiple_periodes
PeriodeJuillet ==
    Periode(1, Date(2024, 7, 1), "matin", Date(2024, 7, 10), "apres_midi",
            "annuel", 2024, 70)

PeriodeDecembre ==
    Periode(1, Date(2024, 12, 1), "matin", Date(2024, 12, 10), "apres_midi",
            "annuel", 2024, 70)

\* PeriodeConge.TYPE_CONGE_CHOICES
TYPE_CONGE_CHOICES == {"annuel", "rtt", "asa", "maladie", "autre"}

\* Rows that can be created
PeriodesPossibles ==
    { PeriodeNov4Nov8, PeriodeNov8, PeriodeJuillet, PeriodeDecembre,
      \* inside the main period, with half-days
      Periode(1, Date(2024, 7, 3), "apres_midi", Date(2024, 7, 5), "matin",
              "annuel", 2024, 20),
      \* across 30 April and across 1 November
      Periode(1, Date(2024, 4, 29), "apres_midi", Date(2024, 5, 3), "matin",
              "annuel", 2024, 30),
      Periode(1, Date(2024, 10, 30), "matin", Date(2024, 11, 5), "matin",
              "annuel", 2024, 35),
      \* across the whole main period
      Periode(1, Date(2024, 4, 29), "matin", Date(2024, 11, 4), "matin",
              "annuel", 2024, 0),
      \* across 31 December
      Periode(1, Date(2024, 12, 30), "apres_midi", Date(2025, 1, 3), "apres_midi",
              "annuel", 2024, 45),
      \* from October to May of the next year, nb_jours left at its default
      Periode(1, Date(2024, 10, 28), "matin", Date(2025, 5, 2), "apres_midi",
              "annuel", 2024, 0),
      \* another user, another type of leave, another civil year
      Periode(2, Date(2024, 11, 4), "matin", Date(2024, 11, 8), "matin",
              "annuel", 2024, 45),
      Periode(1, Date(2024, 11, 8), "apres_midi", Date(2024, 11, 8), "apres_midi",
              "rtt", 2024, 5),
      Periode(1, Date(2025, 11, 3), "matin", Date(2025, 11, 3), "matin",
              "annuel", 2025, 5) }

\* Rows of ParametresAnnee that can be created
ParametresPossibles ==
    { [user |-> 1, annee |-> 2024, jours_ouvres_ou_ouvrables |-> "ouvrables"],
      [user |-> 1, annee |-> 2024, jours_ouvres_ou_ouvrables |-> "ouvres"],
      [user |-> 2, annee |-> 2024, jours_ouvres_ou_ouvrables |-> "ouvrables"] }

\* Years a calculation is asked for
AnneesAppel == { ANNEE_MIN - 1, 2024, 2025 }

\* Meta.ordering = ['-date_debut', 'user']: the row r comes before the new row p
avant(r, p) ==
    \/ r.date_debut > p.date_debut
    \/ (r.date_debut = p.date_debut /\ r.user <= p.user)

\* The table with the row p at place k + 1
inserer_apres(table, k, p) ==
    SubSeq(table, 1, k) \o <<p>> \o SubSeq(table, k + 1, Len(table))

\* The table, in the order of Meta.ordering, with the new row p
inserer(table, p) ==
    inserer_apres(table, Cardinality({ i \in DOMAIN table : avant(table[i], p) }), p)

Init ==
    /\ pc = "tables"
    /\ args = Rien
    /\ ret = Rien /\ ret2 = Rien
    /\ cache = CacheVide
    /\ TablesVides
    /\ SansAppels

\* PeriodeConge.objects.create(...)
CreerPeriode ==
    /\ pc = "tables"
    /\ Len(periodes) < MaxPeriodes
    /\ \E p \in PeriodesPossibles : periodes' = inserer(periodes, p)
    /\ UNCHANGED <<pc, args, ret, ret2, cache, parametres, cache_api, appels, cycles>>

\* ParametresAnnee.objects.create(...), unique_together = [['user', 'annee']]
CreerParametres ==
    /\ pc = "tables"
    /\ Cardinality(DOMAIN parametres) < MaxParametres
    /\ \E q \in ParametresPossibles :
          /\ <<q.user, q.annee>> \notin DOMAIN parametres
          /\ parametres' = [k \in DOMAIN parametres \cup {<<q.user, q.annee>>} |->
                               IF k = <<q.user, q.annee>>
                               THEN q.jours_ouvres_ou_ouvrables
                               ELSE parametres[k]]
    /\ UNCHANGED <<pc, args, ret, ret2, cache, periodes, cache_api, appels, cycles>>

\* The Python types an argument annee is given with
TypesAnnee == {"int", "float"}

\* The faults of a call: panne_base, the database raises OperationalError
\* when it is queried; pannes, the places in the query's result of the
\* periods whose computation raises
PannesPossibles(rows) ==
    { f \in [panne_base : BOOLEAN, pannes : SUBSET (DOMAIN rows)] :
         f.panne_base => f.pannes = {} }

\* The faults that can show in a call: none when the year is refused, since
\* the year is checked before the database and the cache are used
PannesDeLAppel(table, user, annee, type_annee) ==
    IF annee_refusee(type_annee, annee)
    THEN { [panne_base |-> FALSE, pannes |-> {}] }
    ELSE PannesPossibles(filtre_periodes(table, user, annee))

\* pc after a call that returned: whether an exception was caught on the way
fait(etiquette, pannes) ==
    IF pannes = {} THEN etiquette ELSE etiquette \o "_panne"

\* The call raises `exception`
Leve(etiquette, exception) ==
    pc' = etiquette \o "_erreur" /\ ret' = exception /\ cache' = cache

\* get_jours_hors_periode_principale(user, annee)
AppelJoursHors ==
    /\ pc = "tables"
    /\ \E user \in Users, annee \in AnneesAppel, type_annee \in TypesAnnee :
       \E f \in PannesDeLAppel(periodes, user, annee, type_annee) :
          /\ args' = [user |-> user, annee |-> annee, type_annee |-> type_annee,
                      panne_base |-> f.panne_base, pannes |-> f.pannes]
          /\ IF annee_refusee(type_annee, annee)
             THEN Leve("hors", "ValueError")
             ELSE IF f.panne_base
             THEN Leve("hors", "OperationalError")
             ELSE /\ pc' = fait("hors_fait", f.pannes)
                  /\ Retourne(get_jours_hors_periode_principale(
                         cache, periodes, parametres, user, annee, f.pannes))
    /\ UNCHANGED <<ret2, periodes, parametres, cache_api, appels, cycles>>

\* calculer_fractionnement_complet(user, annee): both except clauses log and
\* raise again
AppelFractionnementComplet ==
    /\ pc = "tables"
    /\ \E user \in Users, annee \in AnneesAppel, type_annee \in TypesAnnee :
       \E f \in PannesDeLAppel(periodes, user, annee, type_annee) :
          /\ args' = [user |-> user, annee |-> annee, type_annee |-> type_annee,
                      panne_base |-> f.panne_base, pannes |-> f.pannes]
          /\ IF annee_refusee(type_annee, annee)
             THEN Leve("complet", "ValueError")
             ELSE IF f.panne_base
             THEN Leve("complet", "OperationalError")
             ELSE /\ pc' = fait("complet_fait", f.pannes)
                  /\ Retourne(calculer_fractionnement_complet(
                         cache, periodes, parametres, user, annee, f.pannes))
    /\ UNCHANGED <<ret2, periodes, parametres, cache_api, appels, cycles>>

Next ==
    \/ CreerPeriode
    \/ CreerParametres
    \/ AppelJoursHors
    \/ AppelFractionnementComplet

Spec == Init /\ [][Next]_vars

---------------------------------------------------------------------------
(* SpecApi: the JSON views api_calcul_fractionnement and                   *)
(* api_calendrier_data are requested again and again on tables that do not *)
(* change, while the keys of the cache expire; calculer_fractionnement_-   *)
(* complet is also called directly.                                        *)

\* The users who send requests
UsersApi == {1}

\* The argument annee of a view: a text that int() accepts, with its value,
\* or a text on which int() raises ValueError
AnneesRequete ==
    { [numerique |-> TRUE, valeur |-> y] : y \in {ANNEE_MIN - 1, 2024, ANNEE_MAX + 1} }
    \cup { [numerique |-> FALSE, valeur |-> None] }

\* The tables of the requests
TablesApi ==
    { <<>>,
      inserer(inserer(<<>>, PeriodeJuillet), PeriodeDecembre),
      inserer(inserer(<<>>, PeriodeNov4Nov8), PeriodeNov8) }

InitApi ==
    /\ pc = "tables"
    /\ args = Rien
    /\ ret = Rien /\ ret2 = Rien
    /\ cache = CacheVide
    /\ periodes \in TablesApi
    /\ parametres = <<>> /\ cycles = <<>>
    /\ SansAppels

\* The view has finished a request
EnAttente == pc \in {"tables", "api_attente", "api_calcul_fait", "api_calendrier_fait"}

\* The view answers without using the cache
Repond(reponse) == ret' = reponse /\ cache' = cache /\ cache_api' = cache_api

\* api_calcul_fractionnement after a miss and a calculation that returned
\* r = [ret, cache]
RepondCalcul(key, r) ==
    /\ ret' = JsonResponse(r.ret, 200)
    /\ cache' = r.cache
    /\ cache_api' = cache_api_set(cache_api, key, r.ret)

\* api_calcul_fractionnement(request, annee); f holds the faults met by
\* calculer_fractionnement_complet when it is called
ApiCalculFractionnement ==
    /\ EnAttente
    /\ pc' = "api_calcul_fait"
    /\ \E user \in UsersApi, annee \in AnneesRequete :
       \E f \in PannesDeLAppel(periodes, user, annee.valeur, "int") :
          /\ args' = [user |-> user, annee |-> annee,
                      panne_base |-> f.panne_base, pannes |-> f.pannes]
          /\ IF ~annee.numerique
             THEN Repond(JsonResponse([error |-> "Année invalide"], 400))
             ELSE IF cle("calcul_fractionnement", user, annee.valeur) \in DOMAIN cache_api
             THEN Repond(JsonResponse(
                      cache_api[cle("calcul_fractionnement", user, annee.valeur)], 200))
             ELSE IF annee_refusee("int", annee.valeur)
             THEN Repond(JsonResponse(
                      [error |-> "Données invalides pour le calcul"], 400))
             ELSE IF f.panne_base
             THEN Repond(JsonResponse(
                      [error |-> "Une erreur est survenue lors du calcul"], 500))
             ELSE RepondCalcul(cle("calcul_fractionnement", user, annee.valeur),
                      calculer_fractionnement_complet(cache, periodes, parametres,
                          user, annee.valeur, f.pannes))
    /\ UNCHANGED <<ret2, periodes, parametres, appels, cycles>>

\* api_calendrier_data after a miss and get_calendrier_data that returned
\* r = [ret, cache, cache_api]
RepondCalendrier(key, r) ==
    /\ ret' = JsonResponse(r.ret, 200)
    /\ cache' = r.cache
    /\ cache_api' = cache_api_set(r.cache_api, key, r.ret)

\* api_calendrier_data after a miss and the query of get_periodes_conges_user
\* that raised: the exception leaves the view, and the handler of the
\* framework answers 500; the holidays and the school breaks are in the cache
EchoueCalendrier(jf, v) ==
    /\ ret' = JsonResponse([error |-> "Server Error (500)"], 500)
    /\ cache' = jf.cache
    /\ cache_api' = v.cache_api

\* api_calendrier_data(request, annee)
ApiCalendrierData ==
    /\ EnAttente
    /\ pc' = "api_calendrier_fait"
    /\ \E user \in UsersApi, annee \in AnneesRequete, panne_base \in BOOLEAN :
          /\ args' = [user |-> user, annee |-> annee,
                      panne_base |-> panne_base, pannes |-> {}]
          /\ IF ~annee.numerique
             THEN Repond(JsonResponse([error |-> "Année invalide"], 400))
             ELSE IF cle("calendrier_data", user, annee.valeur) \in DOMAIN cache_api
             THEN Repond(JsonResponse(
                      cache_api[cle("calendrier_data", user, annee.valeur)], 200))
             ELSE IF panne_base
             THEN EchoueCalendrier(get_jours_feries_list(cache, annee.valeur),
                                   get_vacances_zone_b_list(cache_api, annee.valeur))
             ELSE RepondCalendrier(cle("calendrier_data", user, annee.valeur),
                      get_calendrier_data(cache, cache_api, periodes, user,
                                          annee.valeur))
    /\ UNCHANGED <<ret2, periodes, parametres, appels, cycles>>

\* One key of the cache reaches its timeout, after the request was answered
ExpirationApi ==
    /\ EnAttente
    /\ \E key \in DOMAIN cache_api :
          cache_api' = [k \in DOMAIN cache_api \ {key} |-> cache_api[k]]
    /\ pc' = "api_attente" /\ args' = Rien /\ ret' = Rien
    /\ UNCHANGED <<ret2, cache, periodes, parametres, appels, cycles>>

\* A key jours_feries_<annee> reaches its timeout, after the request was
\* answered
ExpirationFeriesApi ==
    /\ EnAttente
    /\ \E annee \in DOMAIN cache :
          cache' = [k \in DOMAIN cache \ {annee} |-> cache[k]]
    /\ pc' = "api_attente" /\ args' = Rien /\ ret' = Rien
    /\ UNCHANGED <<ret2, periodes, parametres, cache_api, appels, cycles>>

NextApi ==
    \/ ApiCalculFractionnement
    \/ ApiCalendrierData
    \/ ExpirationApi
    \/ ExpirationFeriesApi
    \/ AppelFractionnementComplet

SpecApi == InitApi /\ [][NextApi]_vars

---------------------------------------------------------------------------
(* SpecConcurrent: NbAppels processes call get_jours_feries again and      *)
(* again, each call being three steps on the shared cache: cache.get, the  *)
(* computation after a miss, cache.set; the keys expire at any time.       *)

\* The processes
Procs == 1..NbAppels

\* The years the processes ask for: in 2059 the list holds 8 May twice
AnneesConcurrentes == {2024, 2025, 2059}

\* A call of get_jours_feries(annee) before its first step
debut_appel(annee) ==
    [annee |-> annee, etape |-> "get", manque |-> FALSE, jours_feries |-> <<>>]

InitConcurrent ==
    /\ pc = "concurrent"
    /\ args = Rien
    /\ ret = Rien /\ ret2 = Rien
    /\ cache = CacheVide
    /\ TablesVides
    /\ cache_api = CacheVide
    /\ appels \in [Procs -> { debut_appel(annee) : annee \in AnneesConcurrentes }]

\* jours_feries = cache.get(cache_key): a hit returns the cached list, a miss
\* goes on with the computation
LireCache(p) ==
    /\ appels[p].etape = "get"
    /\ appels' = [appels EXCEPT ![p] =
                     IF appels[p].annee \in DOMAIN cache
                     THEN [@ EXCEPT !.etape = "return",
                                    !.jours_feries = cache[appels[p].annee]]
                     ELSE [@ EXCEPT !.etape = "calcul", !.manque = TRUE]]
    /\ UNCHANGED <<pc, args, ret, ret2, cache, periodes, parametres, cache_api, cycles>>

\* if jours_feries is None: the list is built and sorted
CalculerJoursFeries(p) ==
    /\ appels[p].etape = "calcul"
    /\ appels' = [appels EXCEPT ![p] =
                     [@ EXCEPT !.etape = "set",
                               !.jours_feries = calcul_jours_feries(appels[p].annee)]]
    /\ UNCHANGED <<pc, args, ret, ret2, cache, periodes, parametres, cache_api, cycles>>

\* cache.set(cache_key, jours_feries, CACHE_DURATION_ONE_YEAR); return
EcrireCache(p) ==
    /\ appels[p].etape = "set"
    /\ cache' = cache_set(cache, appels[p].annee, appels[p].jours_feries).cache
    /\ appels' = [appels EXCEPT ![p] = [@ EXCEPT !.etape = "return"]]
    /\ UNCHANGED <<pc, args, ret, ret2, periodes, parametres, cache_api, cycles>>

\* The process calls get_jours_feries again, for any year
NouvelAppel(p) ==
    /\ appels[p].etape = "return"
    /\ \E annee \in AnneesConcurrentes :
          appels' = [appels EXCEPT ![p] = debut_appel(annee)]
    /\ UNCHANGED <<pc, args, ret, ret2, cache, periodes, parametres, cache_api, cycles>>

\* A key jours_feries_<annee> expires
ExpirationConcurrente ==
    /\ pc = "concurrent"
    /\ \E annee \in DOMAIN cache :
          cache' = [y \in DOMAIN cache \ {annee} |-> cache[y]]
    /\ UNCHANGED <<pc, args, ret, ret2, periodes, parametres, cache_api, appels, cycles>>

NextConcurrent ==
    \/ \E p \in Procs : LireCache(p)
    \/ \E p \in Procs : CalculerJoursFeries(p)
    \/ \E p \in Procs : EcrireCache(p)
    \/ \E p \in Procs : NouvelAppel(p)
    \/ ExpirationConcurrente

SpecConcurrent == InitConcurrent /\ [][NextConcurrent]_vars

---------------------------------------------------------------------------
(* SpecFormulaires: CycleHebdomadaireForm and ParametresAnneeForm are      *)
(* submitted again and again, to create a record or to modify one of the   *)
(* user's records.  A table with unique_together = [['user', 'annee']] is  *)
(* a function of <<user, annee>>, and a record is named by its key, which  *)
(* stands for its pk; a save that would break the constraint raises        *)
(* IntegrityError.  Each submission leaves its inputs and the tables as    *)
(* they were before it in args, and its outcome in ret.  heures_semaine    *)
(* and quotite_travail are submitted within their bounds.                  *)

\* self.instance.pk is None: the form creates a record
SansInstance == <<>>

\* existing.exists(): a record of the user and year other than the instance
existing_exists(table, user, instance, annee) ==
    \E k \in DOMAIN table : k[1] = user /\ k[2] = annee /\ k # instance

\* Mutant: the instance is not excluded from the records looked for
clean_annee_sans_exclude(table, user, instance, annee) ==
    IF annee_invalide(annee) \/ <<user, annee>> \in DOMAIN table
    THEN {"annee"} ELSE {}

\* clean_annee of CycleHebdomadaireForm and of ParametresAnneeForm: the
\* fields in error
clean_annee(table, user, instance, annee) ==
    IF annee_invalide(annee) \/ existing_exists(table, user, instance, annee)
    THEN {"annee"} ELSE {}

\* CycleHebdomadaireForm.clean_heures_semaine: the fields in error
clean_heures_semaine(heures_semaine) ==
    IF heures_semaine < HEURES_SEMAINE_MIN \/ heures_semaine > HEURES_SEMAINE_MAX
    THEN {"heures_semaine"} ELSE {}

\* CycleHebdomadaireForm.clean_quotite_travail: the fields in error
clean_quotite_travail(quotite) ==
    IF quotite < QUOTITE_TRAVAIL_MIN \/ quotite > QUOTITE_TRAVAIL_MAX
    THEN {"quotite_travail"} ELSE {}

\* The fields of a CycleHebdomadaire after clean() and save(): rtt_annuels
\* and conges_annuels are computed from the submitted values
cycle_calcule(heures_semaine, quotite_travail, jours) ==
    [heures_semaine |-> heures_semaine, quotite_travail |-> quotite_travail,
     jours_ouvres_ou_ouvrables |-> jours,
     rtt_annuels |-> calculer_rtt_annuels(heures_semaine, quotite_travail),
     conges_annuels |-> calculer_conges_annuels(quotite_travail, jours)]

\* instance.save() breaks unique_together: the key is held by another record
IntegrityError(table, instance, key) == key \in DOMAIN table \ {instance}

\* instance.save(): the record `instance` (or a new one) is written under key
enregistrer(table, instance, key, valeur) ==
    [k \in (DOMAIN table \ {instance}) \cup {key} |->
        IF k = key THEN valeur ELSE table[k]]

\* form.is_valid() and form.save() on a table: the errors of the form, the
\* exception of save() and the table they leave
soumettre(table, instance, key, valeur, erreurs) ==
    IF erreurs # {}
    THEN [erreurs |-> erreurs, exception |-> FALSE, table |-> table]
    ELSE IF IntegrityError(table, instance, key)
    THEN [erreurs |-> {}, exception |-> TRUE, table |-> table]
    ELSE [erreurs |-> {}, exception |-> FALSE,
          table |-> enregistrer(table, instance, key, valeur)]

\* The users who submit the forms
UsersFormulaires == {1, 2}

\* The years submitted
AnneesFormulaires == {ANNEE_MIN - 1, 2024, 2025}

\* The instances a user can submit a form for: none, or one of the user's
\* records
Instances(table, user) == {SansInstance} \cup {k \in DOMAIN table : k[1] = user}

\* A new record fits in the table of the model
PlaceLibre(table, instance) ==
    instance = SansInstance => Cardinality(DOMAIN table) < MaxLignes

InitFormulaires ==
    /\ pc = "formulaires"
    /\ args = Rien
    /\ ret = Rien /\ ret2 = Rien
    /\ cache = CacheVide
    /\ TablesVides
    /\ SansAppels

\* The inputs of a submission and the tables before it
Soumission(formulaire, user, instance, annee) ==
    [formulaire |-> formulaire, user |-> user, instance |-> instance,
     annee |-> annee, cycles |-> cycles, parametres |-> parametres]

\* CycleHebdomadaireForm(data, instance=..., user=user): is_valid(), save()
SoumettreCycleHebdomadaireForm ==
    /\ \E user \in UsersFormulaires, annee \in AnneesFormulaires,
          jours \in JOURS_CHOICES :
       \E instance \in Instances(cycles, user) :
          /\ PlaceLibre(cycles, instance)
          /\ args' = Soumission("CycleHebdomadaireForm", user, instance, annee)
          /\ ret' = soumettre(cycles, instance, <<user, annee>>,
                        cycle_calcule(HEURES_SEMAINE_MAX, QUOTITE_TRAVAIL_MAX, jours),
                        clean_annee(cycles, user, instance, annee)
                        \cup clean_heures_semaine(HEURES_SEMAINE_MAX)
                        \cup clean_quotite_travail(QUOTITE_TRAVAIL_MAX))
          /\ cycles' = ret'.table
    /\ pc' = "formulaire_soumis"
    /\ UNCHANGED <<ret2, cache, periodes, parametres, cache_api, appels>>

\* ParametresAnneeForm(data, instance=..., user=user): is_valid(), save()
SoumettreParametresAnneeForm ==
    /\ \E user \in UsersFormulaires, annee \in AnneesFormulaires,
          jours \in JOURS_CHOICES :
       \E instance \in Instances(parametres, user) :
          /\ PlaceLibre(parametres, instance)
          /\ args' = Soumission("ParametresAnneeForm", user, instance, annee)
          /\ ret' = soumettre(parametres, instance, <<user, annee>>, jours,
                        clean_annee(parametres, user, instance, annee))
          /\ parametres' = ret'.table
    /\ pc' = "formulaire_soumis"
    /\ UNCHANGED <<ret2, cache, periodes, cycles, cache_api, appels>>

NextFormulaires ==
    \/ SoumettreCycleHebdomadaireForm
    \/ SoumettreParametresAnneeForm

SpecFormulaires == InitFormulaires /\ [][NextFormulaires]_vars

---------------------------------------------------------------------------
(* SpecPeriodes: PeriodeCongeForm is submitted again and again, to create  *)
(* a period or to modify one of the user's periods, on tables              *)
(* ParametresAnnee and CycleHebdomadaire that the forms of SpecFormulaires *)
(* have filled; then get_jours_hors_periode_principale is called, or       *)
(* fractionnement_view is requested.  A period is named by its place in    *)
(* the table, which stands for its pk, 0 naming no period.  The context of *)
(* fractionnement_view is modelled by its entries 'calcul' and             *)
(* 'jours_ouvres_ou_ouvrables'.                                            *)

\* jours_type of PeriodeCongeForm.clean: ParametresAnnee, else
\* CycleHebdomadaire, else 'ouvres'
jours_type_formulaire(params, cyc, user, annee_civile) ==
    IF <<user, annee_civile>> \in DOMAIN params
    THEN params[<<user, annee_civile>>]
    ELSE IF <<user, annee_civile>> \in DOMAIN cyc
    THEN cyc[<<user, annee_civile>>].jours_ouvres_ou_ouvrables
    ELSE "ouvres"

\* PeriodeCongeForm.clean_date_fin: the fields in error
clean_date_fin(date_debut, date_fin) ==
    IF date_fin < date_debut THEN {"date_fin"} ELSE {}

\* Mutant: a modified period keeps the annee_civile it had
annee_civile_conservee(table, instance, date_debut) ==
    IF instance \in DOMAIN table THEN table[instance].annee_civile ELSE Year(date_debut)

\* annee_civile_calculee of PeriodeCongeForm.clean, applied by save()
annee_civile_calculee(table, instance, date_debut) == Year(date_debut)

\* nb_jours_calcule of PeriodeCongeForm.clean, with the cache it leaves
nb_jours_calcule(c, params, cyc, user, data) ==
    compter_jours_periode(c, data.date_debut, data.date_fin,
        jours_type_formulaire(params, cyc, user, Year(data.date_debut)),
        TRUE, Year(data.date_debut), data.debut_type, data.fin_type)

\* The instance PeriodeCongeForm.save() writes
periode_calculee(user, data, annee_civile, nb_jours) ==
    Periode(user, data.date_debut, data.debut_type, data.date_fin, data.fin_type,
            data.type_conge, annee_civile, nb_jours)

\* The table without its row at place i
retirer(table, i) ==
    IF i \in DOMAIN table
    THEN SubSeq(table, 1, i - 1) \o SubSeq(table, i + 1, Len(table))
    ELSE table

\* instance.save() of a period: the row at place `instance`, if any, is
\* replaced by the row p
enregistrer_periode(table, instance, p) == inserer(retirer(table, instance), p)

\* PeriodeCongeForm: is_valid() and save(), from the result n of
\* nb_jours_calcule; the errors, the period saved, the table and the cache
periode_soumise(table, user, instance, data, n) ==
    [erreurs |-> {},
     periode |-> periode_calculee(user, data,
                     annee_civile_calculee(table, instance, data.date_debut), n.ret),
     periodes |-> enregistrer_periode(table, instance,
                     periode_calculee(user, data,
                         annee_civile_calculee(table, instance, data.date_debut),
                         n.ret)),
     cache |-> n.cache]

\* PeriodeCongeForm(data, instance=..., user=user): is_valid() and, if valid,
\* save()
PeriodeCongeForm(c, table, params, cyc, user, instance, data) ==
    IF clean_date_fin(data.date_debut, data.date_fin) # {}
    THEN [erreurs |-> clean_date_fin(data.date_debut, data.date_fin),
          periode |-> Rien, periodes |-> table, cache |-> c]
    ELSE periode_soumise(table, user, instance, data,
                         nb_jours_calcule(c, params, cyc, user, data))

\* The user who submits periods
UsersPeriodes == {1}

\* The dates submitted: Friday 27 December 2024, Tuesday 31 December 2024
\* (after a week-end), Thursday 2 January 2025 (after the holiday of 1 January)
DatesPeriodes == {Date(2024, 12, 27), Date(2024, 12, 31), Date(2025, 1, 2)}

\* The half-days submitted: (debut_type, fin_type)
DemiJourneesPeriodes == {<<"matin", "apres_midi">>, <<"apres_midi", "matin">>}

\* The data submitted
DonneesPeriodes ==
    { [date_debut |-> dd, debut_type |-> t[1], date_fin |-> df, fin_type |-> t[2],
       type_conge |-> "annuel"] :
          dd \in DatesPeriodes, df \in DatesPeriodes, t \in DemiJourneesPeriodes }

\* The tables ParametresAnnee and CycleHebdomadaire of user 1: none, a cycle
\* alone, parameters over a cycle of the other convention
ConventionsInitiales ==
    { [parametres |-> <<>>, cycles |-> <<>>],
      [parametres |-> <<>>,
       cycles |-> (<<1, 2024>> :> cycle_calcule(HEURES_SEMAINE_MAX,
                                      QUOTITE_TRAVAIL_MAX, "ouvrables"))],
      [parametres |-> (<<1, 2024>> :> "ouvres"),
       cycles |-> (<<1, 2024>> :> cycle_calcule(HEURES_SEMAINE_MAX,
                                      QUOTITE_TRAVAIL_MAX, "ouvrables"))],
      [parametres |-> (<<1, 2024>> :> "ouvrables"),
       cycles |-> (<<1, 2024>> :> cycle_calcule(HEURES_SEMAINE_MAX,
                                      QUOTITE_TRAVAIL_MAX, "ouvres"))] }

InitPeriodes ==
    /\ pc = "periodes"
    /\ args = Rien
    /\ ret = Rien /\ ret2 = Rien
    /\ cache = CacheVide
    /\ periodes = <<>>
    /\ \E t \in ConventionsInitiales :
          parametres = t.parametres /\ cycles = t.cycles
    /\ SansAppels

\* Between two submissions
EntreSoumissions == pc \in {"periodes", "periode_soumise"}

\* PeriodeCongeForm(data, instance=..., user=user): is_valid(), save()
SoumettrePeriodeCongeForm ==
    /\ EntreSoumissions
    /\ \E user \in UsersPeriodes, data \in DonneesPeriodes :
       \E instance \in {0} \cup {i \in DOMAIN periodes : periodes[i].user = user} :
          /\ instance = 0 => Len(periodes) < MaxPeriodesFormulaire
          /\ args' = [user |-> user, instance |-> instance, data |-> data,
                      periodes |-> periodes]
          /\ ret' = PeriodeCongeForm(cache, periodes, parametres, cycles, user,
                                     instance, data)
          /\ periodes' = ret'.periodes
          /\ cache' = ret'.cache
    /\ pc' = "periode_soumise"
    /\ UNCHANGED <<ret2, parametres, cache_api, appels, cycles>>

\* get_jours_hors_periode_principale(user, annee) on the periods submitted
CalculerJoursHors ==
    /\ EntreSoumissions
    /\ \E user \in UsersPeriodes, annee \in AnneesAppel :
          /\ args' = [user |-> user, annee |-> annee, type_annee |-> "int",
                      panne_base |-> FALSE, pannes |-> {}]
          /\ IF annee_refusee("int", annee)
             THEN Leve("hors", "ValueError")
             ELSE /\ pc' = "hors_fait"
                  /\ Retourne(get_jours_hors_periode_principale(
                         cache, periodes, parametres, user, annee, {}))
    /\ UNCHANGED <<ret2, periodes, parametres, cache_api, appels, cycles>>

\* calcul of fractionnement_view: calculer_fractionnement_complet, or the
\* default of the except clause
calcul_de_la_vue(c, table, params, user, annee) ==
    IF annee_refusee("int", annee)
    THEN [ret |-> [jours_hors_periode |-> 0, jours_fractionnement |-> 0,
                   annee |-> annee],
          cache |-> c]
    ELSE calculer_fractionnement_complet(c, table, params, user, annee, {})

\* jours_ouvres_ou_ouvrables of fractionnement_view: parametres, else cycle,
\* else 'ouvres'
jours_type_de_la_vue(params, cyc, user, annee) ==
    IF <<user, annee>> \in DOMAIN params
    THEN params[<<user, annee>>]
    ELSE IF <<user, annee>> \in DOMAIN cyc
    THEN cyc[<<user, annee>>].jours_ouvres_ou_ouvrables
    ELSE "ouvres"

\* fractionnement_view(request) with ?annee=<annee>
FractionnementView ==
    /\ EntreSoumissions
    /\ \E user \in UsersPeriodes, annee \in AnneesAppel :
          /\ args' = [user |-> user, annee |-> annee]
          /\ ret' = [calcul |-> calcul_de_la_vue(cache, periodes, parametres,
                                                 user, annee).ret,
                     jours_ouvres_ou_ouvrables |->
                         jours_type_de_la_vue(parametres, cycles, user, annee)]
          /\ cache' = calcul_de_la_vue(cache, periodes, parametres, user, annee).cache
    /\ pc' = "vue_faite"
    /\ UNCHANGED <<ret2, periodes, parametres, cache_api, appels, cycles>>

NextPeriodes ==
    \/ SoumettrePeriodeCongeForm
    \/ CalculerJoursHors
    \/ FractionnementView

SpecPeriodes == InitPeriodes /\ [][NextPeriodes]_vars

---------------------------------------------------------------------------
(* SpecVues: the views that modify and delete the weekly cycles and the    *)
(* leave periods, and the view that creates a period, are requested by two *)
(* users, GET or POST, for a record of theirs, for a record of the other   *)
(* user or for a pk that names no record, while user 1 reads               *)
(* api_calcul_fractionnement.  A period is named by its place in the       *)
(* table and a cycle by its key, which stand for their pk.  Each request   *)
(* leaves its inputs, and the tables and the cache as they were before     *)
(* it, in args, and the status of its response in ret.  The keys of the    *)
(* cache reach their timeout at any time between two requests, and the     *)
(* database answers.                                                       *)

\* cache.delete(key)
cache_delete(ca, key) == [k \in DOMAIN ca \ {key} |-> ca[k]]

\* The two cache.delete of the views of the periods, for one civil year
invalider_caches(ca, user, annee) ==
    cache_delete(cache_delete(ca, cle("calcul_fractionnement", user, annee)),
                 cle("calendrier_data", user, annee))

\* Mutant: the record is looked for by its pk alone
get_object_or_404_sans_user(table, pk, user) == pk \in DOMAIN table

\* get_object_or_404(PeriodeConge, pk=pk, user=request.user) finds a row
get_object_or_404(table, pk, user) == pk \in DOMAIN table /\ table[pk].user = user

\* get_object_or_404(CycleHebdomadaire, pk=pk, user=request.user) finds a row
get_cycle_or_404(cyc, pk, user) == pk \in DOMAIN cyc /\ pk[1] = user

\* The response of a view and the state it leaves
reponse(status, table, cyc, c, ca) ==
    [status |-> status, periodes |-> table, cycles |-> cyc, cache |-> c,
     cache_api |-> ca]

\* periode_create_view and periode_update_view after form.is_valid(): f is
\* the outcome of PeriodeCongeForm
periode_form_view(cyc, c, ca, table, user, f) ==
    IF f.erreurs # {}
    THEN reponse(200, table, cyc, c, ca)
    ELSE reponse(302, f.periodes, cyc, f.cache,
                 invalider_caches(ca, user, f.periode.annee_civile))

\* periode_create_view(request)
periode_create_view(c, ca, table, params, cyc, user, methode, data) ==
    IF methode = "POST"
    THEN periode_form_view(cyc, c, ca, table, user,
             PeriodeCongeForm(c, table, params, cyc, user, 0, data))
    ELSE reponse(200, table, cyc, c, ca)

\* periode_update_view(request, pk)
periode_update_view(c, ca, table, params, cyc, user, pk, methode, data) ==
    IF ~get_object_or_404(table, pk, user)
    THEN reponse(404, table, cyc, c, ca)
    ELSE IF methode = "POST"
    THEN periode_form_view(cyc, c, ca, table, user,
             PeriodeCongeForm(c, table, params, cyc, user, pk, data))
    ELSE reponse(200, table, cyc, c, ca)

\* periode_delete_view(request, pk)
periode_delete_view(c, ca, table, cyc, user, pk, methode) ==
    IF ~get_object_or_404(table, pk, user)
    THEN reponse(404, table, cyc, c, ca)
    ELSE IF methode = "POST"
    THEN reponse(302, retirer(table, pk), cyc, c,
                 invalider_caches(ca, user, table[pk].annee_civile))
    ELSE reponse(200, table, cyc, c, ca)

\* cycle_update_view after form.is_valid(): f is the outcome of
\* CycleHebdomadaireForm
cycle_form_view(table, c, ca, cyc, user, annee, f) ==
    IF f.erreurs # {} \/ f.exception
    THEN reponse(IF f.exception THEN 500 ELSE 200, table, cyc, c, ca)
    ELSE reponse(302, table, f.table, c,
                 cache_delete(ca, cle("calcul_fractionnement", user, annee)))

\* cycle_update_view(request, pk)
cycle_update_view(table, c, ca, cyc, user, pk, methode, annee, jours) ==
    IF ~get_cycle_or_404(cyc, pk, user)
    THEN reponse(404, table, cyc, c, ca)
    ELSE IF methode = "POST"
    THEN cycle_form_view(table, c, ca, cyc, user, annee,
             soumettre(cyc, pk, <<user, annee>>,
                 cycle_calcule(HEURES_SEMAINE_MAX, QUOTITE_TRAVAIL_MAX, jours),
                 clean_annee(cyc, user, pk, annee)
                 \cup clean_heures_semaine(HEURES_SEMAINE_MAX)
                 \cup clean_quotite_travail(QUOTITE_TRAVAIL_MAX)))
    ELSE reponse(200, table, cyc, c, ca)

\* cycle_delete_view(request, pk)
cycle_delete_view(table, c, ca, cyc, user, pk, methode) ==
    IF ~get_cycle_or_404(cyc, pk, user)
    THEN reponse(404, table, cyc, c, ca)
    ELSE IF methode = "POST"
    THEN reponse(302, table, [k \in DOMAIN cyc \ {pk} |-> cyc[k]], c,
                 cache_delete(ca, cle("calcul_fractionnement", user, pk[2])))
    ELSE reponse(200, table, cyc, c, ca)

\* api_calcul_fractionnement after a miss: r is the result [ret, cache] of
\* calculer_fractionnement_complet
api_calcul_manque(table, cyc, ca, key, r) ==
    reponse(200, table, cyc, r.cache, cache_api_set(ca, key, r.ret))
    @@ [body |-> r.ret]

\* api_calcul_fractionnement(request, annee) for the text of an integer,
\* when the database answers
api_calcul_fractionnement(c, ca, table, params, cyc, user, annee) ==
    IF cle("calcul_fractionnement", user, annee) \in DOMAIN ca
    THEN reponse(200, table, cyc, c, ca)
         @@ [body |-> ca[cle("calcul_fractionnement", user, annee)]]
    ELSE IF annee_refusee("int", annee)
    THEN reponse(400, table, cyc, c, ca)
         @@ [body |-> [error |-> "Données invalides pour le calcul"]]
    ELSE api_calcul_manque(table, cyc, ca, cle("calcul_fractionnement", user, annee),
             calculer_fractionnement_complet(c, table, params, user, annee, {}))

\* The users who send requests
UsersVues == {1, 2}

\* request.method
Methodes == {"GET", "POST"}

\* The data posted to the views of the periods: one day of 2024, one day of
\* 2025
DonneesVues ==
    { [date_debut |-> d, debut_type |-> "matin", date_fin |-> d,
       fin_type |-> "apres_midi", type_conge |-> "annuel"] :
          d \in {Date(2024, 12, 27), Date(2025, 1, 2)} }

\* The years posted to cycle_update_view
AnneesVues == {2024}

\* The pk of the requests for a cycle: the cycles, and one that is none
PkCycles == DOMAIN cycles \cup {<<None, None>>}

\* The pk of the requests for a period: the periods, and one that is none
PkPeriodes == 1..(Len(periodes) + 1)

\* The years user 1 asks the calculation for
AnneesLues == {ANNEE_MIN - 1, 2024, 2025}

\* User 1 has a weekly cycle for 2024
InitVues ==
    /\ pc = "vues"
    /\ args = Rien
    /\ ret = Rien /\ ret2 = Rien
    /\ cache = CacheVide
    /\ periodes = <<>> /\ parametres = <<>>
    /\ cycles = (<<1, 2024>> :>
                    cycle_calcule(HEURES_SEMAINE_MAX, QUOTITE_TRAVAIL_MAX, "ouvres"))
    /\ SansAppels

\* The inputs of a request and the state before it
Requete(vue, user, pk, methode, data) ==
    [vue |-> vue, user |-> user, pk |-> pk, methode |-> methode, data |-> data,
     periodes |-> periodes, cycles |-> cycles, cache_api |-> cache_api]

\* The view answers r and leaves the state of r
RepondVue(r) ==
    /\ ret' = r
    /\ periodes' = r.periodes /\ cycles' = r.cycles
    /\ cache' = r.cache /\ cache_api' = r.cache_api
    /\ UNCHANGED <<ret2, parametres, appels>>

PeriodeCreateView ==
    /\ pc' = "vue_repondue"
    /\ Len(periodes) < MaxPeriodesVues
    /\ \E user \in UsersVues, methode \in Methodes, data \in DonneesVues :
          /\ args' = Requete("periode_create_view", user, 0, methode, data)
          /\ RepondVue(periode_create_view(cache, cache_api, periodes, parametres,
                                           cycles, user, methode, data))

PeriodeUpdateView ==
    /\ pc' = "vue_repondue"
    /\ \E user \in UsersVues, pk \in PkPeriodes, methode \in Methodes,
          data \in DonneesVues :
          /\ args' = Requete("periode_update_view", user, pk, methode, data)
          /\ RepondVue(periode_update_view(cache, cache_api, periodes, parametres,
                                           cycles, user, pk, methode, data))

PeriodeDeleteView ==
    /\ pc' = "vue_repondue"
    /\ \E user \in UsersVues, pk \in PkPeriodes, methode \in Methodes :
          /\ args' = Requete("periode_delete_view", user, pk, methode, Rien)
          /\ RepondVue(periode_delete_view(cache, cache_api, periodes, cycles,
                                           user, pk, methode))

CycleUpdateView ==
    /\ pc' = "vue_repondue"
    /\ \E user \in UsersVues, pk \in PkCycles, methode \in Methodes,
          annee \in AnneesVues :
          /\ args' = Requete("cycle_update_view", user, pk, methode, annee)
          /\ RepondVue(cycle_update_view(periodes, cache, cache_api, cycles, user,
                                         pk, methode, annee, "ouvrables"))

CycleDeleteView ==
    /\ pc' = "vue_repondue"
    /\ \E user \in UsersVues, pk \in PkCycles, methode \in Methodes :
          /\ args' = Requete("cycle_delete_view", user, pk, methode, Rien)
          /\ RepondVue(cycle_delete_view(periodes, cache, cache_api, cycles, user,
                                         pk, methode))

\* User 1 requests api_calcul_fractionnement
LireApiCalcul ==
    /\ pc' = "api_lu"
    /\ \E annee \in AnneesLues :
          /\ args' = Requete("api_calcul_fractionnement", 1, None, "GET", annee)
          /\ RepondVue(api_calcul_fractionnement(cache, cache_api, periodes,
                                                 parametres, cycles, 1, annee))

\* One key of the cache reaches its timeout, between two requests
ExpirationVues ==
    /\ \E key \in DOMAIN cache_api : cache_api' = cache_delete(cache_api, key)
    /\ pc' = "vues" /\ args' = Rien /\ ret' = Rien
    /\ UNCHANGED <<ret2, cache, periodes, parametres, appels, cycles>>

NextVues ==
    \/ PeriodeCreateView
    \/ PeriodeUpdateView
    \/ PeriodeDeleteView
    \/ CycleUpdateView
    \/ CycleDeleteView
    \/ LireApiCalcul
    \/ ExpirationVues

SpecVues == InitVues /\ [][NextVues]_vars

---------------------------------------------------------------------------
(* Claims on calculer_jours_fractionnement *)

C2_SeuilsDesTests ==
    pc = "frac_fait" =>
        LET n == args.jours_hors_periode
        IN  /\ (n < 3 => ret = 0)
            /\ (3 <= n /\ n <= 5 => ret = 1)
            /\ (n >= 6 => ret = 2)

---------------------------------------------------------------------------
(* Claims on the public holidays *)

\* The 8 fixed holidays of a year, as the specification lists them
FixesSelonSpec(y) ==
    { Date(y, 1, 1), Date(y, 5, 1), Date(y, 5, 8), Date(y, 7, 14),
      Date(y, 8, 15), Date(y, 11, 1), Date(y, 11, 11), Date(y, 12, 25) }

\* Easter Sunday by the congruence algorithm of the specification
PaquesSelonSpec(year) ==
    LET a == year % 19
        b == year \div 100
        c == year % 100
        d == b \div 4
        e == b % 4
        f == (b + 8) \div 25
        g == (b - f + 1) \div 3
        h == (19 * a + b - d - g + 15) % 30
        i == c \div 4
        k == c % 4
        l == (32 + 2 * e + 2 * i - h - k) % 7
        m == (a + 11 * h + 22 * l) \div 451
        month == (h + l - 7 * m + 114) \div 31
        day == ((h + l - 7 * m + 114) % 31) + 1
    IN  Date(year, month, day)

\* The 4 Easter-relative holidays of a year, as the specification lists them
VariablesSelonSpec(y) ==
    LET p == PaquesSelonSpec(y) IN { p, p + 1, p + 39, p + 50 }

\* Ascension falls on one of the fixed holidays of May
AscensionSurJourFixe(y) ==
    PaquesSelonSpec(y) + 39 \in { Date(y, 5, 1), Date(y, 5, 8) }

\* C7 as stated: for every year of ANNEE_MIN..ANNEE_MAX, get_jours_feries
\* holds exactly 12 dates, all within the year: the 8 fixed dates and the 4
\* Easter-relative ones, 1 January among them.
C7_DouzeDates ==
    (pc = "feries_fait" /\ args.annee \in ANNEE_MIN..ANNEE_MAX) =>
        /\ Cardinality(SetOf(ret)) = 12
        /\ \A i \in DOMAIN ret : Year(ret[i]) = args.annee
        /\ SetOf(ret) = FixesSelonSpec(args.annee) \cup VariablesSelonSpec(args.annee)
        /\ Date(args.annee, 1, 1) \in SetOf(ret)

\* C7 amended: get_jours_feries returns a list of 12 entries, all within the
\* year: the 8 fixed dates and the 4 Easter-relative ones, 1 January among
\* them; the 12 entries are 12 distinct dates unless Ascension falls on 1 May
\* or 8 May, and then that date is listed twice and the dates are 11.
C7_DouzeEntrees ==
    pc = "feries_fait" =>
        /\ Len(ret) = 12
        /\ \A i \in DOMAIN ret : Year(ret[i]) = args.annee
        /\ SetOf(ret) = FixesSelonSpec(args.annee) \cup VariablesSelonSpec(args.annee)
        /\ Date(args.annee, 1, 1) \in SetOf(ret)
        /\ Cardinality(SetOf(ret)) =
              IF AscensionSurJourFixe(args.annee) THEN 11 ELSE 12

\* C7 witness: the list of a year whose Ascension is 8 May has been computed
\* and holds 8 May twice.
C7_Witness ==
    /\ pc = "feries_fait"
    /\ args.annee = 2059
    /\ Len(ret) = 12
    /\ \E i \in DOMAIN ret : i < Len(ret) /\ ret[i] = Date(2059, 5, 8) /\ ret[i + 1] = ret[i]

\* C8: calculer_paques(year) is the date of the specification's congruence
\* algorithm, 2024-03-31 for 2024 and 2025-04-20 for 2025, and the variable
\* holidays of get_jours_feries are that date, +1 day, +39 days and +50 days.
C8_Paques ==
    /\ pc = "paques_fait" =>
          /\ ~ret.exception
          /\ ret.valeur = PaquesSelonSpec(args.annee)
          /\ (args.annee = 2024 => ret.valeur = Date(2024, 3, 31))
          /\ (args.annee = 2025 => ret.valeur = Date(2025, 4, 20))
    /\ pc = "feries_fait" =>
          /\ VariablesSelonSpec(args.annee) \subseteq SetOf(ret)
          /\ SetOf(ret) \ FixesSelonSpec(args.annee)
                \subseteq VariablesSelonSpec(args.annee)

\* C8 witness: calculer_paques(2025) has returned 20 April 2025.
C8_Witness ==
    /\ pc = "paques_fait"
    /\ args.annee = 2025
    /\ ~ret.exception
    /\ Month(ret.valeur) = 4 /\ Day(ret.valeur) = 20 /\ Year(ret.valeur) = 2025

---------------------------------------------------------------------------
(* Claims on the day counters.  The reference count below is written from  *)
(* the specification: it does not use the counters of the model.           *)

\* The public holidays of a year, as the specification lists them
FeriesSelonSpec(y) == FixesSelonSpec(y) \cup VariablesSelonSpec(y)

\* 0 = Monday ... 6 = Sunday, from 2024-01-01 being a Monday
JourDeSemaineSelonSpec(d) == (d - Date(2024, 1, 1)) % 7

\* The year whose holidays a call excludes
AnneeDesFeries == IF args.annee = None THEN Year(args.date_debut) ELSE args.annee

\* Whether the date d is a counted day of the call under way, in mode `jours`
EstCompteSelonSpec(d, jours) ==
    /\ JourDeSemaineSelonSpec(d) \in (IF jours = "ouvrables" THEN 0..5 ELSE 0..4)
    /\ args.exclure_feries => d \notin FeriesSelonSpec(AnneeDesFeries)

\* The number of counted days of the range of the call under way
NbJoursSelonSpec(jours) ==
    Cardinality({ d \in args.date_debut..args.date_fin : EstCompteSelonSpec(d, jours) })

\* The half-day taken off at a boundary date d when `retire` holds
DemiSelonSpec(d, retire) ==
    IF EstCompteSelonSpec(d, args.jours_ouvres_ou_ouvrables) /\ retire THEN DEMI ELSE 0

\* C4: for start <= end, compter_jours_periode returns the full-day count,
\* minus 0.5 if the start date is counted and debut_type is 'apres_midi', minus
\* 0.5 if the end date is counted and fin_type is 'matin'.  So one counted day
\* gives 0.5 (matin, matin), 0.5 (apres_midi, apres_midi), 1.0 (matin,
\* apres_midi), and two consecutive counted days give 1.0 (apres_midi, matin)
\* and 1.5 (apres_midi, apres_midi).
C4_DemiJournees ==
    (pc = "periode_fait" /\ args.date_debut <= args.date_fin) =>
        LET jours == args.jours_ouvres_ou_ouvrables
            dt == args.debut_type
            ft == args.fin_type
            unJour == /\ args.date_fin = args.date_debut
                      /\ EstCompteSelonSpec(args.date_debut, jours)
            deuxJours == /\ args.date_fin = args.date_debut + 1
                         /\ EstCompteSelonSpec(args.date_debut, jours)
                         /\ EstCompteSelonSpec(args.date_fin, jours)
        IN  /\ ret = Decimal(NbJoursSelonSpec(jours))
                     - DemiSelonSpec(args.date_debut, dt = "apres_midi")
                     - DemiSelonSpec(args.date_fin, ft = "matin")
            /\ (unJour /\ dt = "matin" /\ ft = "matin") => ret = 5
            /\ (unJour /\ dt = "apres_midi" /\ ft = "apres_midi") => ret = 5
            /\ (unJour /\ dt = "matin" /\ ft = "apres_midi") => ret = 10
            /\ (deuxJours /\ dt = "apres_midi" /\ ft = "matin") => ret = 10
            /\ (deuxJours /\ dt = "apres_midi" /\ ft = "apres_midi") => ret = 15

\* C4 witness: Monday 1 July 2024 afternoon to Tuesday 2 July 2024 morning has
\* been counted as 1.0 day.
C4_Witness ==
    /\ pc = "periode_fait"
    /\ args.date_debut = Date(2024, 7, 1) /\ args.date_fin = Date(2024, 7, 2)
    /\ args.jours_ouvres_ou_ouvrables = "ouvres"
    /\ args.exclure_feries /\ args.annee = 2024
    /\ args.debut_type = "apres_midi" /\ args.fin_type = "matin"
    /\ ret = 10

\* C5: when the start date (the end date) is not a counted day, a week-end day
\* of the mode or an excluded public holiday, the value of debut_type
\* (fin_type) has no effect on the result of compter_jours_periode.
C5_BorneNonComptee ==
    pc = "periode_fait" =>
        /\ ~EstCompteSelonSpec(args.date_debut, args.jours_ouvres_ou_ouvrables) =>
              \A dt \in DEMI_JOURNEE_CHOICES :
                  compter_jours_periode(cache, args.date_debut, args.date_fin,
                      args.jours_ouvres_ou_ouvrables, args.exclure_feries,
                      args.annee, dt, args.fin_type).ret = ret
        /\ ~EstCompteSelonSpec(args.date_fin, args.jours_ouvres_ou_ouvrables) =>
              \A ft \in DEMI_JOURNEE_CHOICES :
                  compter_jours_periode(cache, args.date_debut, args.date_fin,
                      args.jours_ouvres_ou_ouvrables, args.exclure_feries,
                      args.annee, args.debut_type, ft).ret = ret

\* C5 witness: a period from Wednesday 25 December 2024 (a holiday), afternoon,
\* to Friday 27 December has been counted, holidays excluded, as 2 full days.
C5_Witness ==
    /\ pc = "periode_fait"
    /\ args.date_debut = Date(2024, 12, 25) /\ args.date_fin = Date(2024, 12, 27)
    /\ args.jours_ouvres_ou_ouvrables = "ouvres"
    /\ args.exclure_feries /\ args.annee = 2024
    /\ args.debut_type = "apres_midi" /\ args.fin_type = "apres_midi"
    /\ ret = 20

\* C6: compter_jours_periode never returns a negative value and always a
\* multiple of 0.5, also for start > end and for one day from 'apres_midi' to
\* 'matin'; called again with the same inputs it returns the same value.
C6_PositifDemiEntier ==
    /\ pc \in {"periode_fait", "periode_refait"} => (ret >= 0 /\ ret % DEMI = 0)
    /\ pc = "periode_refait" => (ret2 >= 0 /\ ret2 = ret)

\* C6 witness: a range that ends before it starts, from the afternoon of a
\* counted day, has been counted twice, as 0 both times.
C6_Witness ==
    /\ pc = "periode_refait"
    /\ args.date_fin < args.date_debut
    /\ EstCompteSelonSpec(args.date_debut, args.jours_ouvres_ou_ouvrables)
    /\ args.debut_type = "apres_midi"
    /\ ret = 0 /\ ret2 = 0

\* C9: compter_jours_ouvres / compter_jours_ouvrables return the number of
\* dates of start..end that are Monday-Friday / Monday-Saturday and, when
\* exclure_feries holds, are not holidays of the single year annee (start.year
\* when annee is None); holidays of another year inside the range are counted,
\* and start > end gives 0.
C9_Comptage ==
    /\ pc = "ouvres_fait" => ret = NbJoursSelonSpec("ouvres")
    /\ pc = "ouvrables_fait" => ret = NbJoursSelonSpec("ouvrables")
    /\ (pc \in {"ouvres_fait", "ouvrables_fait"} /\ args.date_debut > args.date_fin)
          => ret = 0

\* C9 witness: 20 December 2024 to 5 January 2025 has been counted with
\* annee = 2024, holidays excluded: 10 days, Wednesday 1 January 2025 among them.
C9_Witness ==
    /\ pc = "ouvres_fait"
    /\ args.date_debut = Date(2024, 12, 20) /\ args.date_fin = Date(2025, 1, 5)
    /\ args.exclure_feries /\ args.annee = 2024
    /\ JourDeSemaineSelonSpec(Date(2025, 1, 1)) = 2
    /\ ret = 10

---------------------------------------------------------------------------
(* Claims on get_jours_hors_periode_principale *)

\* The annual periods of the call under way, as the query returns them
PeriodesDeLAppel == filtre_periodes(periodes, args.user, args.annee)

\* The day-counting convention of the call under way
JoursDeLAppel == type_de_jours(parametres, args.user, args.annee)

\* The half-day-precise contribution of one period to the call under way
Contribution(periode) ==
    jours_hors_de_periode(cache, periode, args.annee, JoursDeLAppel).ret

\* The sum of the contributions of rows[i..]
RECURSIVE SommeContributions(_, _)
SommeContributions(rows, i) ==
    IF i > Len(rows) THEN 0
    ELSE Contribution(rows[i]) + SommeContributions(rows, i + 1)

MoisDansPeriodePrincipale(periode) ==
    /\ Month(periode.date_debut) \in 5..10
    /\ Month(periode.date_fin) \in 5..10

\* C10: an annual period whose start month and end month are both in
\* May..October contributes 0 to get_jours_hors_periode_principale, whatever
\* its nb_jours: the result is the one computed without these periods.
C10_PeriodePrincipale ==
    pc = "hors_fait" =>
        /\ \A i \in DOMAIN PeriodesDeLAppel :
              MoisDansPeriodePrincipale(PeriodesDeLAppel[i])
                  => Contribution(PeriodesDeLAppel[i]) = 0
        /\ ret = SommeContributions(
                     SelectSeq(PeriodesDeLAppel,
                               LAMBDA p : ~MoisDansPeriodePrincipale(p)), 1) \div 10

\* C10 witness: with the period 2024-07-01..2024-07-10 (nb_jours 7) and the
\* period 2024-12-01..2024-12-10, the days outside the main period of user 1
\* in 2024 have been computed as the 7 days of December.
C10_Witness ==
    /\ pc = "hors_fait"
    /\ args.user = 1 /\ args.annee = 2024
    /\ PeriodesDeLAppel = <<PeriodeDecembre, PeriodeJuillet>>
    /\ PeriodeJuillet.nb_jours = 70
    /\ JoursDeLAppel = "ouvres"
    /\ ret = 7

\* Whether the date d is a counted day in mode `jours`, the holidays being
\* those of the year annee
CompteSelonSpec(d, jours, annee) ==
    /\ JourDeSemaineSelonSpec(d) \in (IF jours = "ouvrables" THEN 0..5 ELSE 0..4)
    /\ d \notin FeriesSelonSpec(annee)

\* countPeriod of the specification on debut..fin, in tenths of a day
CompterPeriodeSelonSpec(debut, fin, jours, annee, dt, ft) ==
    Max2(0, Decimal(Cardinality({ d \in debut..fin : CompteSelonSpec(d, jours, annee) }))
            - (IF CompteSelonSpec(debut, jours, annee) /\ dt = "apres_midi"
               THEN DEMI ELSE 0)
            - (IF CompteSelonSpec(fin, jours, annee) /\ ft = "matin"
               THEN DEMI ELSE 0))

\* Sub-period (a): from the start to min(end, 30 April of the year)
SousPeriodeASelonSpec(p, jours, annee, fin) ==
    IF Month(p.date_debut) <= 4
    THEN CompterPeriodeSelonSpec(p.date_debut, fin, jours, annee, p.debut_type,
             IF fin = p.date_fin THEN p.fin_type ELSE "apres_midi")
    ELSE 0

\* Sub-period (b): from max(start, 1 November of the year) to the end
SousPeriodeBSelonSpec(p, jours, annee, debut) ==
    IF Month(p.date_fin) >= 11
    THEN CompterPeriodeSelonSpec(debut, p.date_fin, jours, annee,
             IF debut = p.date_debut THEN p.debut_type ELSE "matin", p.fin_type)
    ELSE 0

\* The period is entirely outside the main period, by its months
EntierementHorsSelonSpec(p) ==
    /\ \/ (Month(p.date_debut) >= 11 /\ Month(p.date_fin) >= 11)
       \/ (Month(p.date_debut) <= 4 /\ Month(p.date_fin) <= 4)
       \/ (Month(p.date_debut) >= 11 /\ Month(p.date_fin) <= 4)
    /\ Month(p.date_debut) \notin 5..10

\* The counted days of the period that are not from 1 May to 31 October of
\* the year
JoursHorsMaiOctobre(p, jours, annee) ==
    { d \in p.date_debut..p.date_fin :
         /\ CompteSelonSpec(d, jours, annee)
         /\ d \notin Date(annee, 5, 1)..Date(annee, 10, 31) }

\* C11: an annual period neither entirely outside nor entirely inside the
\* main period contributes the count of the sub-period from its start to
\* min(end, 30 April) if its start month is <= 4 (real debut_type, fin_type
\* 'apres_midi' unless the sub-period ends on the real end date) plus the
\* count of the sub-period from max(start, 1 November) to its end if its end
\* month is >= 11 (debut_type 'matin' unless the sub-period starts on the real
\* start date, real fin_type); the days from 1 May to 31 October of the year
\* contribute nothing.
C11_SousPeriodes ==
    pc = "hors_fait" =>
        \A i \in DOMAIN PeriodesDeLAppel :
            (/\ ~EntierementHorsSelonSpec(PeriodesDeLAppel[i])
             /\ ~MoisDansPeriodePrincipale(PeriodesDeLAppel[i]))
            => /\ Contribution(PeriodesDeLAppel[i]) =
                    SousPeriodeASelonSpec(PeriodesDeLAppel[i], JoursDeLAppel, args.annee,
                        Min2(PeriodesDeLAppel[i].date_fin, Date(args.annee, 4, 30)))
                    + SousPeriodeBSelonSpec(PeriodesDeLAppel[i], JoursDeLAppel, args.annee,
                        Max2(PeriodesDeLAppel[i].date_debut, Date(args.annee, 11, 1)))
               /\ Contribution(PeriodesDeLAppel[i]) <=
                    Decimal(Cardinality(JoursHorsMaiOctobre(PeriodesDeLAppel[i],
                                                            JoursDeLAppel, args.annee)))

\* C11 witness: the period 2024-04-29 (matin) to 2024-11-04 (matin) has been
\* counted as the 2 days up to 30 April plus the half-day of 4 November, and
\* the period 2024-04-29 (apres_midi) to 2024-05-03 (matin) as 1.5 days.
C11_Witness ==
    /\ pc = "hors_fait"
    /\ args.user = 1 /\ args.annee = 2024
    /\ JoursDeLAppel = "ouvres"
    /\ Len(PeriodesDeLAppel) = 2
    /\ PeriodesDeLAppel[1].date_debut = Date(2024, 4, 29)
    /\ PeriodesDeLAppel[1].date_fin = Date(2024, 11, 4)
    /\ Contribution(PeriodesDeLAppel[1]) = 25
    /\ PeriodesDeLAppel[2].date_fin = Date(2024, 5, 3)
    /\ Contribution(PeriodesDeLAppel[2]) = 15
    /\ ret = 4

\* The row p is not an annual period of the user and year of the call
Etrangere(p) ==
    \/ p.user # args.user
    \/ p.annee_civile # args.annee
    \/ p.type_conge # "annuel"

\* The rows that can be created, with every type of leave
PeriodesDeTousTypes ==
    { [p EXCEPT !.type_conge = t] : p \in PeriodesPossibles, t \in TYPE_CONGE_CHOICES }

\* The result of the call under way, had the table of periods been `table`
ResultatSur(table) ==
    get_jours_hors_periode_principale(cache, table, parametres,
                                      args.user, args.annee, {}).ret

\* The table without its row i
SansLaLigne(table, i) == SubSeq(table, 1, i - 1) \o SubSeq(table, i + 1, Len(table))

\* C12: get_jours_hors_periode_principale(user, Y) depends only on the
\* periods of that user with type_conge 'annuel' and annee_civile Y: creating,
\* deleting or changing a period of another user, of another civil year or of
\* another type of leave leaves the result unchanged.
C12_SeulesLesPeriodesDeLAppel ==
    pc = "hors_fait" =>
        /\ \A p \in PeriodesDeTousTypes :
              Etrangere(p) => ResultatSur(inserer(periodes, p)) = ret
        /\ \A i \in DOMAIN periodes :
              Etrangere(periodes[i]) =>
                 /\ ResultatSur(SansLaLigne(periodes, i)) = ret
                 /\ \A p \in PeriodesPossibles :
                       Etrangere(p) =>
                          ResultatSur(inserer(SansLaLigne(periodes, i), p)) = ret

\* C12 witness: the days outside the main period of user 1 in 2024 have been
\* computed as 4 from the period of 4 to 8 November, while the table also
\* holds the same period for user 2 and a period of type 'rtt' of user 1.
C12_Witness ==
    /\ pc = "hors_fait"
    /\ args.user = 1 /\ args.annee = 2024
    /\ PeriodesDeLAppel = <<PeriodeNov4Nov8>>
    /\ \E i \in DOMAIN periodes : periodes[i].user = 2
    /\ \E i \in DOMAIN periodes :
          periodes[i].user = 1 /\ periodes[i].type_conge = "rtt"
    /\ ret = 4

\* The sum, over rows[i..], of the days outside the main period counted from
\* the specification with the five-day convention
RECURSIVE SommeOuvresSelonSpec(_, _)
SommeOuvresSelonSpec(rows, i) ==
    IF i > Len(rows) THEN 0
    ELSE (IF EntierementHorsSelonSpec(rows[i])
          THEN CompterPeriodeSelonSpec(rows[i].date_debut, rows[i].date_fin, "ouvres",
                   args.annee, rows[i].debut_type, rows[i].fin_type)
          ELSE IF MoisDansPeriodePrincipale(rows[i]) THEN 0
          ELSE SousPeriodeASelonSpec(rows[i], "ouvres", args.annee,
                   Min2(rows[i].date_fin, Date(args.annee, 4, 30)))
               + SousPeriodeBSelonSpec(rows[i], "ouvres", args.annee,
                   Max2(rows[i].date_debut, Date(args.annee, 11, 1))))
         + SommeOuvresSelonSpec(rows, i + 1)

\* C13: for a valid year and a user without ParametresAnnee (the function
\* reads no CycleHebdomadaire), calculer_fractionnement_complet, when the
\* database answers, does not raise and counts with the five-day 'ouvres' convention; without annual period of
\* the year it returns jours_hors_periode = 0, jours_fractionnement = 0 and
\* the requested annee.
C13_SansParametres ==
    /\ (/\ pc \in {"complet_fait", "complet_fait_panne", "complet_erreur"}
        /\ args.type_annee = "int" /\ args.annee \in ANNEE_MIN..ANNEE_MAX
        /\ ~args.panne_base
        /\ <<args.user, args.annee>> \notin DOMAIN parametres)
       => /\ pc # "complet_erreur"
          /\ pc = "complet_fait" =>
                /\ ret.jours_hors_periode =
                      SommeOuvresSelonSpec(PeriodesDeLAppel, 1) \div 10
                /\ PeriodesDeLAppel = <<PeriodeDecembre>>
                      => ret.jours_hors_periode = 7
    /\ (pc = "complet_fait" /\ PeriodesDeLAppel = <<>>)
       => ret = [jours_hors_periode |-> 0, jours_fractionnement |-> 0,
                 annee |-> args.annee]

\* C13 witness: without any ParametresAnnee, the period 2024-12-01..2024-12-10,
\* which holds a Saturday, has been counted as 7 days (award 1) for user 1,
\* and the table holds no annual period of user 2.
C13_Witness ==
    /\ pc = "complet_fait"
    /\ parametres = <<>>
    /\ args.user = 1 /\ args.annee = 2024
    /\ PeriodesDeLAppel = <<PeriodeDecembre>>
    /\ filtre_periodes(periodes, 2, 2024) = <<>>
    /\ ret = [jours_hors_periode |-> 7, jours_fractionnement |-> 1, annee |-> 2024]

\* The sum of the contributions of the rows of rows[i..] whose computation
\* did not raise
RECURSIVE SommeSansPannes(_, _)
SommeSansPannes(rows, i) ==
    IF i > Len(rows) THEN 0
    ELSE (IF i \in args.pannes THEN 0 ELSE Contribution(rows[i]))
         + SommeSansPannes(rows, i + 1)

\* C16: when the computation of the contribution of an annual period raises,
\* get_jours_hors_periode_principale does not raise, that period contributes
\* nothing and every other annual period of the user and year contributes its
\* full count to the total returned.
C16_PeriodeEnErreur ==
    (/\ pc \in {"hors_fait", "hors_fait_panne", "hors_erreur"}
     /\ args.pannes # {})
    => /\ pc = "hors_fait_panne"
       /\ ret = SommeSansPannes(PeriodesDeLAppel, 1) \div 10
       /\ (PeriodesDeLAppel = <<PeriodeNov8, PeriodeNov4Nov8>> /\ args.pannes = {1})
             => ret = 4
       /\ (PeriodesDeLAppel = <<PeriodeNov8, PeriodeNov4Nov8>> /\ args.pannes = {2})
             => ret = 0

\* C16 witness: the computation of the period of 8 November, the first of the
\* query, has raised, and the call has returned the 4 days of the period of
\* 4 to 8 November.
C16_Witness ==
    /\ pc = "hors_fait_panne"
    /\ args.user = 1 /\ args.annee = 2024
    /\ PeriodesDeLAppel = <<PeriodeNov8, PeriodeNov4Nov8>>
    /\ args.pannes = {1}
    /\ Contribution(PeriodeNov4Nov8) = 45
    /\ ret = 4

---------------------------------------------------------------------------
(* Claims on the errors of calculer_fractionnement_complet and of the views *)

\* The year of the direct call under way is an integer of 2020..2100
AnneeAcceptee == args.type_annee = "int" /\ args.annee \in 2020..2100

\* A direct call of calculer_fractionnement_complet has ended
AppelCompletTermine == pc \in {"complet_fait", "complet_fait_panne", "complet_erreur"}

\* The direct call raises ValueError exactly when the year is not an integer
\* of 2020..2100
ValueErrorSelonSpec ==
    AppelCompletTermine =>
        ((pc = "complet_erreur" /\ ret = "ValueError") <=> ~AnneeAcceptee)

\* The view api_calcul_fractionnement has answered a request whose year is a
\* number
ApiCalculTermine == pc = "api_calcul_fait" /\ args.annee.numerique

\* The view answers 400 to the ValueError of the year, 500 to the exception
\* of the database that reaches it, and 200 otherwise
StatutsSelonSpec ==
    ApiCalculTermine =>
        /\ ret.status = 400 <=> args.annee.valeur \notin 2020..2100
        /\ ret.status = 500 => args.panne_base
        /\ (/\ args.annee.valeur \in 2020..2100
            /\ args.panne_base
            /\ cle("calcul_fractionnement", args.user, args.annee.valeur)
                  \notin DOMAIN cache_api)
           => ret.status = 500
        /\ (args.annee.valeur \in 2020..2100 /\ ~args.panne_base)
           => ret.status = 200

\* C14 as stated: calculer_fractionnement_complet raises ValueError whenever
\* the year is not an integer of 2020..2100, every exception raised during
\* the call propagates to the caller instead of being turned into a result,
\* and api_calcul_fractionnement answers the ValueError with 400 and any
\* other exception with 500.
C14_TouteExceptionSePropage ==
    /\ ValueErrorSelonSpec
    /\ (AppelCompletTermine /\ AnneeAcceptee /\ (args.panne_base \/ args.pannes # {}))
       => pc = "complet_erreur"
    /\ StatutsSelonSpec

\* C14 amended: calculer_fractionnement_complet raises ValueError whenever
\* the year is not an integer of 2020..2100, and the exception of a database
\* query propagates to the caller; the exception raised while one period is
\* computed does not: the call returns a result.  api_calcul_fractionnement
\* answers the ValueError with 400 and the exception that reaches it with 500.
C14_ExceptionsPropagees ==
    /\ ValueErrorSelonSpec
    /\ (AppelCompletTermine /\ AnneeAcceptee) =>
          /\ args.panne_base => (pc = "complet_erreur" /\ ret = "OperationalError")
          /\ ~args.panne_base =>
                (pc = (IF args.pannes = {} THEN "complet_fait" ELSE "complet_fait_panne"))
    /\ StatutsSelonSpec

\* C14 witness: api_calcul_fractionnement has answered 500 to a request for
\* 2024 during which the database raised.
C14_Witness ==
    /\ ApiCalculTermine
    /\ args.annee.valeur = 2024
    /\ args.panne_base
    /\ ret = JsonResponse([error |-> "Une erreur est survenue lors du calcul"], 500)

\* C15: for a year outside 2020..2100 both JSON views answer 400 and neither
\* returns a computed payload.
C15_BornesApi ==
    (/\ pc \in {"api_calcul_fait", "api_calendrier_fait"}
     /\ args.annee.numerique
     /\ args.annee.valeur \notin 2020..2100)
    => ret.status = 400

---------------------------------------------------------------------------
(* Claims on calculer_rtt_annuels and calculer_conges_annuels *)

\* 52 * h - 1607, in hundredths of an hour, for the call under way
ExcesSelonSpec == 52 * args.heures_semaine - 160700

\* C17: calculer_rtt_annuels(h, q) returns 0 when h <= 35; otherwise, with
\* excess = 52 * h - 1607, it returns 0 if excess <= 0 and else the integer
\* nearest to (excess / h) * q; for h = 39 and q = 1.0 the result is 11.
C17_RttAnnuels ==
    pc = "rtt_fait" =>
        /\ args.heures_semaine <= 3500 => ret = 0
        /\ (args.heures_semaine > 3500 /\ ExcesSelonSpec <= 0) => ret = 0
        /\ (args.heures_semaine > 3500 /\ ExcesSelonSpec > 0) =>
              /\ 2 * (ret * args.heures_semaine * 1000
                      - ExcesSelonSpec * args.quotite_travail)
                    <= args.heures_semaine * 1000
              /\ 2 * (ExcesSelonSpec * args.quotite_travail
                      - ret * args.heures_semaine * 1000)
                    <= args.heures_semaine * 1000
        /\ (args.heures_semaine = 3900 /\ args.quotite_travail = 1000) => ret = 11

\* C17 witness: calculer_rtt_annuels(39, 1.0) has returned 11.
C17_Witness ==
    /\ pc = "rtt_fait"
    /\ args.heures_semaine = 3900 /\ args.quotite_travail = 1000
    /\ ret = 11

\* C18: for 35 < h <= 39 and quotas q1 <= q2 of [0.5, 1.0],
\* calculer_rtt_annuels(h, q1) <= calculer_rtt_annuels(h, q2); for h = 39 the
\* half-time value is strictly smaller than the full-time value.
C18_RttCroissant ==
    (/\ pc = "rtt_fait"
     /\ args.heures_semaine > 3500 /\ args.heures_semaine <= 3900
     /\ args.quotite_travail \in 500..1000)
    => /\ \A q2 \in args.quotite_travail..1000 :
             ret <= calculer_rtt_annuels(args.heures_semaine, q2)
       /\ (args.heures_semaine = 3900 /\ args.quotite_travail = 500)
             => ret < calculer_rtt_annuels(3900, 1000)

\* C18 witness: calculer_rtt_annuels(39, 0.5) has returned 5, fewer than the
\* 11 of the full-time quota.
C18_Witness ==
    /\ pc = "rtt_fait"
    /\ args.heures_semaine = 3900 /\ args.quotite_travail = 500
    /\ ret = 5
    /\ calculer_rtt_annuels(3900, 1000) = 11

\* C19: calculer_conges_annuels(q, mode) is 25.00 * q rounded to 2 decimal
\* places for every q of [0.5, 1.0], the same for the modes 'ouvres' and
\* 'ouvrables'; it is 25.00 for q = 1.0 and 12.50 for q = 0.5.
C19_CongesAnnuels ==
    (pc = "conges_fait" /\ args.quotite_travail \in 500..1000) =>
        /\ 2 * (10 * ret - 25 * args.quotite_travail) <= 10
        /\ 2 * (25 * args.quotite_travail - 10 * ret) <= 10
        /\ \A mode \in {"ouvres", "ouvrables"} :
              ret = calculer_conges_annuels(args.quotite_travail, mode)
        /\ args.quotite_travail = 1000 => ret = 2500
        /\ args.quotite_travail = 500 => ret = 1250

\* C19 witness: calculer_conges_annuels(0.5, 'ouvrables') has returned 12.50.
C19_Witness ==
    /\ pc = "conges_fait"
    /\ args.quotite_travail = 500
    /\ args.jours_ouvres_ou_ouvrables = "ouvrables"
    /\ ret = 1250

---------------------------------------------------------------------------
(* Claims on the concurrent calls of get_jours_feries *)

\* The list is sorted and holds the holidays of the year y as the
\* specification lists them
ListeSelonSpec(liste, y) ==
    /\ \A i \in 1..(Len(liste) - 1) : liste[i] <= liste[i + 1]
    /\ SetOf(liste) = FeriesSelonSpec(y)
    /\ \A i \in DOMAIN liste : Year(liste[i]) = y

\* C20: in every interleaving of concurrent get_jours_feries calls and of
\* cache expiry, every call returns the same sorted list of the holidays of
\* its year, whether it found the key or computed the list, and the entry of
\* the cache for a year never holds the holidays of another year.
C20_AppelsConcurrents ==
    pc = "concurrent" =>
        /\ \A p \in Procs :
              appels[p].etape = "return"
                 => ListeSelonSpec(appels[p].jours_feries, appels[p].annee)
        /\ \A p, q \in Procs :
              (/\ appels[p].etape = "return" /\ appels[q].etape = "return"
               /\ appels[p].annee = appels[q].annee)
                 => appels[p].jours_feries = appels[q].jours_feries
        /\ \A y \in DOMAIN cache : ListeSelonSpec(cache[y], y)

\* C20 witness: two calls for 2024 have both missed the key, both computed
\* the list and both written it, one over the other, and have returned the
\* same list; the cache holds the holidays of 2024.
C20_Witness ==
    /\ pc = "concurrent"
    /\ appels[1].etape = "return" /\ appels[2].etape = "return"
    /\ appels[1].annee = 2024 /\ appels[2].annee = 2024
    /\ appels[1].manque /\ appels[2].manque
    /\ appels[1].jours_feries = appels[2].jours_feries
    /\ 2024 \in DOMAIN cache

---------------------------------------------------------------------------
(* Claims on the date of Easter and on the names of the holidays *)

\* Easter Sunday falls between 22 March and 25 April of the year y
DansLaFenetreDePaques(d, y) == Date(y, 3, 22) <= d /\ d <= Date(y, 4, 25)

\* C29: for every year of 2020..2100 calculer_paques returns a valid date, a
\* Sunday between 22 March and 25 April inclusive, so that Easter Monday and
\* Whit Monday are Mondays and Ascension a Thursday, all of the same year; the
\* list of get_jours_feries holds such a Sunday with these three dates.
C29_PaquesDimanche ==
    /\ (pc = "paques_fait" /\ args.annee \in ANNEE_MIN..ANNEE_MAX) =>
          /\ ~ret.exception
          /\ weekday(ret.valeur) = 6
          /\ DansLaFenetreDePaques(ret.valeur, args.annee)
          /\ weekday(ret.valeur + 1) = 0 /\ Year(ret.valeur + 1) = args.annee
          /\ weekday(ret.valeur + 39) = 3 /\ Year(ret.valeur + 39) = args.annee
          /\ weekday(ret.valeur + 50) = 0 /\ Year(ret.valeur + 50) = args.annee
    /\ (pc = "feries_fait" /\ args.annee \in ANNEE_MIN..ANNEE_MAX) =>
          \E i \in DOMAIN ret :
              /\ weekday(ret[i]) = 6
              /\ DansLaFenetreDePaques(ret[i], args.annee)
              /\ {ret[i] + 1, ret[i] + 39, ret[i] + 50} \subseteq SetOf(ret)
              /\ SetOf(ret) \ FixesSelonSpec(args.annee)
                    \subseteq {ret[i], ret[i] + 1, ret[i] + 39, ret[i] + 50}

\* C29 witness: calculer_paques(2038) has returned 25 April 2038, the last
\* day of the window, a Sunday.
C29_Witness ==
    /\ pc = "paques_fait"
    /\ args.annee = 2038
    /\ ~ret.exception
    /\ ret.valeur = Date(2038, 4, 25)
    /\ weekday(ret.valeur) = 6

\* The name the specification gives to the holiday of date d in year y, as
\* a set: more than one when two holidays fall on the same date, none for a
\* date the specification does not name
NomsSelonSpec(d, y) ==
    {n \in {"Jour de l'an", "Fête du Travail", "Victoire en Europe",
            "Fête nationale", "Assomption", "Toussaint", "Noël", "Pâques",
            "Lundi de Pâques", "Ascension", "Lundi de Pentecôte"} :
        \/ n = "Jour de l'an" /\ d = Date(y, 1, 1)
        \/ n = "Fête du Travail" /\ d = Date(y, 5, 1)
        \/ n = "Victoire en Europe" /\ d = Date(y, 5, 8)
        \/ n = "Fête nationale" /\ d = Date(y, 7, 14)
        \/ n = "Assomption" /\ d = Date(y, 8, 15)
        \/ n = "Toussaint" /\ d = Date(y, 11, 1)
        \/ n = "Noël" /\ d = Date(y, 12, 25)
        \/ n = "Pâques" /\ d = PaquesSelonSpec(y)
        \/ n = "Lundi de Pâques" /\ d = PaquesSelonSpec(y) + 1
        \/ n = "Ascension" /\ d = PaquesSelonSpec(y) + 39
        \/ n = "Lundi de Pentecôte" /\ d = PaquesSelonSpec(y) + 50}

\* C30: for every year of 2020..2100 each entry of get_jours_feries_list whose
\* date is one of the eleven holidays the specification names carries the
\* name of that holiday, and no two entries of different dates carry the same
\* name.
C30_NomsDesFeries ==
    (pc = "liste_faite" /\ args.annee \in ANNEE_MIN..ANNEE_MAX) =>
        /\ \A i \in DOMAIN ret :
              \A d \in FeriesSelonSpec(args.annee) :
                  (isoformat(d) = ret[i].date /\ NomsSelonSpec(d, args.annee) # {})
                      => ret[i].nom \in NomsSelonSpec(d, args.annee)
        /\ \A i, j \in DOMAIN ret :
              ret[i].date # ret[j].date => ret[i].nom # ret[j].nom

\* C25: get_vacances_zone_b_list(2024) returns a non-empty list of school
\* breaks, each entry with date_debut, date_fin, nom and type = 'vacance'.
C25_VacancesNonVides ==
    (pc = "vacances_faites" /\ args.annee = 2024) =>
        /\ Len(ret) > 0
        /\ \A i \in DOMAIN ret :
              /\ DOMAIN ret[i] = {"date_debut", "date_fin", "nom", "type"}
              /\ ret[i].type = "vacance"

---------------------------------------------------------------------------
(* Claims on the days outside the main period, day by day *)

\* The date d is a counted day of mode `jours`, a holiday being one of the
\* year of d, and lies outside 1 May..31 October
HorsPeriodeSelonSpec(d, jours) ==
    /\ JourDeSemaineSelonSpec(d) \in (IF jours = "ouvrables" THEN 0..5 ELSE 0..4)
    /\ d \notin FeriesSelonSpec(Year(d))
    /\ Month(d) \notin 5..10

\* The counted days of the period p outside the main period, in tenths of a
\* day, with the half-day adjustments at the real start and the real end
JoursHorsSelonSpec(p, jours) ==
    Max2(0, Decimal(Cardinality({ d \in p.date_debut..p.date_fin :
                                     HorsPeriodeSelonSpec(d, jours) }))
            - (IF HorsPeriodeSelonSpec(p.date_debut, jours)
                  /\ p.debut_type = "apres_midi" THEN DEMI ELSE 0)
            - (IF HorsPeriodeSelonSpec(p.date_fin, jours)
                  /\ p.fin_type = "matin" THEN DEMI ELSE 0))

\* C26: every annual period with date_debut <= date_fin and annee_civile =
\* date_debut.year, a period that runs past 31 December included, contributes
\* to get_jours_hors_periode_principale the number of its counted days (per
\* mode, holidays excluded, half-day adjustments at the real start and end)
\* whose date lies outside 1 May..31 October.
C26_ContributionJourParJour ==
    pc = "hors_fait" =>
        \A i \in DOMAIN PeriodesDeLAppel :
            (/\ PeriodesDeLAppel[i].date_debut <= PeriodesDeLAppel[i].date_fin
             /\ PeriodesDeLAppel[i].annee_civile = Year(PeriodesDeLAppel[i].date_debut))
            => Contribution(PeriodesDeLAppel[i]) =
                   JoursHorsSelonSpec(PeriodesDeLAppel[i], JoursDeLAppel)

---------------------------------------------------------------------------
(* Claims on CycleHebdomadaireForm and ParametresAnneeForm *)

\* The table of the form submitted last, before the submission
TableAvant ==
    IF args.formulaire = "CycleHebdomadaireForm" THEN args.cycles ELSE args.parametres

\* The table of the form submitted last, after the submission
TableApres ==
    IF args.formulaire = "CycleHebdomadaireForm" THEN cycles ELSE parametres

\* The submission names a (user, year) that a record other than the
\* instance holds
AnneeDejaPrise ==
    /\ <<args.user, args.annee>> \in DOMAIN TableAvant
    /\ <<args.user, args.annee>> # args.instance

\* C23: after any sequence of creations and modifications through
\* CycleHebdomadaireForm and ParametresAnneeForm each user has at most one
\* record of each table per year, the forms never letting a save reach the
\* constraint of the database: a submission that creates a second record
\* for, or moves another record onto, an existing (user, year) is rejected
\* with an error on 'annee' and leaves both tables as they were, while a
\* record saved again on its own year, or created or moved onto a free year
\* of 2020..2100, is accepted and stored under that year.
C23_UnParUtilisateurEtAnnee ==
    pc = "formulaire_soumis" =>
        /\ ~ret.exception
        /\ \A k \in DOMAIN cycles \cup DOMAIN parametres :
              k[1] \in UsersFormulaires /\ k[2] \in ANNEE_MIN..ANNEE_MAX
        /\ AnneeDejaPrise =>
              /\ "annee" \in ret.erreurs
              /\ cycles = args.cycles /\ parametres = args.parametres
        /\ (~AnneeDejaPrise /\ args.annee \in ANNEE_MIN..ANNEE_MAX) =>
              /\ ret.erreurs = {}
              /\ DOMAIN TableApres =
                    (DOMAIN TableAvant \ {args.instance}) \cup {<<args.user, args.annee>>}
              /\ \A k \in DOMAIN TableApres \ {<<args.user, args.annee>>} :
                    TableApres[k] = TableAvant[k]

\* C23 witness: user 1 has a cycle for 2024 and one for 2025, the form has
\* been submitted to move the cycle of 2025 onto 2024 and has been rejected
\* with an error on 'annee', the two cycles being as before.
C23_Witness ==
    /\ pc = "formulaire_soumis"
    /\ args.formulaire = "CycleHebdomadaireForm"
    /\ args.user = 1 /\ args.instance = <<1, 2025>> /\ args.annee = 2024
    /\ DOMAIN args.cycles = {<<1, 2024>>, <<1, 2025>>}
    /\ ret.erreurs = {"annee"}
    /\ cycles = args.cycles

---------------------------------------------------------------------------
(* Claims on PeriodeCongeForm and on the day-counting convention *)

\* The convention the specification resolves for a user and a year:
\* ParametresAnnee if present, else CycleHebdomadaire if present, else 'ouvres'
ConventionSelonSpec(user, annee) ==
    IF <<user, annee>> \in DOMAIN parametres
    THEN parametres[<<user, annee>>]
    ELSE IF <<user, annee>> \in DOMAIN cycles
    THEN cycles[<<user, annee>>].jours_ouvres_ou_ouvrables
    ELSE "ouvres"

\* nb_jours of the period p as the specification computes it
NbJoursDeLaPeriodeSelonSpec(p) ==
    CompterPeriodeSelonSpec(p.date_debut, p.date_fin,
        ConventionSelonSpec(p.user, Year(p.date_debut)), Year(p.date_debut),
        p.debut_type, p.fin_type)

\* The row p holds the data submitted by the user
PorteLesDonnees(p, user, data) ==
    /\ p.user = user
    /\ p.date_debut = data.date_debut /\ p.debut_type = data.debut_type
    /\ p.date_fin = data.date_fin /\ p.fin_type = data.fin_type
    /\ p.type_conge = data.type_conge

\* C22: after every successful creation or modification through
\* PeriodeCongeForm, whatever the values the period had, the stored period
\* holds the data submitted with date_fin >= date_debut, annee_civile =
\* date_debut.year and nb_jours = compter_jours_periode(date_debut, date_fin,
\* resolved convention, holidays excluded, annee_civile, debut_type,
\* fin_type), a non-negative multiple of 0.5, and it replaces the period
\* modified; a submission with date_fin < date_debut is rejected with an
\* error on 'date_fin' and stores nothing.
C22_PeriodeEnregistree ==
    pc = "periode_soumise" =>
        /\ \A i \in DOMAIN periodes :
              /\ periodes[i].date_fin >= periodes[i].date_debut
              /\ periodes[i].annee_civile = Year(periodes[i].date_debut)
              /\ periodes[i].nb_jours >= 0 /\ periodes[i].nb_jours % DEMI = 0
        /\ args.data.date_fin < args.data.date_debut =>
              /\ "date_fin" \in ret.erreurs
              /\ periodes = args.periodes
        /\ args.data.date_fin >= args.data.date_debut =>
              /\ ret.erreurs = {}
              /\ PorteLesDonnees(ret.periode, args.user, args.data)
              /\ ret.periode.annee_civile = Year(args.data.date_debut)
              /\ ret.periode.nb_jours = NbJoursDeLaPeriodeSelonSpec(ret.periode)
              /\ \E i \in DOMAIN periodes :
                    /\ periodes[i] = ret.periode
                    /\ retirer(periodes, i) = retirer(args.periodes, args.instance)

\* C22 witness: a period of 2024 has been modified into the single day
\* 2025-01-02 from 'apres_midi' to 'matin', and is stored with annee_civile
\* 2025 and nb_jours 0.
C22_Witness ==
    /\ pc = "periode_soumise"
    /\ args.instance \in DOMAIN args.periodes
    /\ args.periodes[args.instance].annee_civile = 2024
    /\ args.periodes[args.instance].nb_jours > 0
    /\ args.data.date_debut = Date(2025, 1, 2) /\ args.data.date_fin = Date(2025, 1, 2)
    /\ args.data.debut_type = "apres_midi" /\ args.data.fin_type = "matin"
    /\ ret.erreurs = {}
    /\ ret.periode.annee_civile = 2025 /\ ret.periode.nb_jours = 0
    /\ \E i \in DOMAIN periodes : periodes[i] = ret.periode

\* The table ParametresAnnee that holds, for the user and year of the call
\* under way, the convention the specification resolves
ParametresResolus ==
    (<<args.user, args.annee>> :> ConventionSelonSpec(args.user, args.annee))

\* C21: the convention applied to a (user, year) is ParametresAnnee if
\* present, else CycleHebdomadaire if present, else 'ouvres', and this same
\* convention is used when nb_jours is computed by PeriodeCongeForm.clean,
\* when get_jours_hors_periode_principale counts the days outside the main
\* period, and in fractionnement_view, for the convention it shows and for
\* the calculation it shows.
C21_MemeConvention ==
    /\ (pc = "periode_soumise" /\ ret.erreurs = {}) =>
          ret.periode.nb_jours = NbJoursDeLaPeriodeSelonSpec(ret.periode)
    /\ pc = "hors_fait" =>
          ret = get_jours_hors_periode_principale(cache, periodes, ParametresResolus,
                    args.user, args.annee, {}).ret
    /\ (pc = "vue_faite" /\ ~annee_invalide(args.annee)) =>
          /\ ret.jours_ouvres_ou_ouvrables = ConventionSelonSpec(args.user, args.annee)
          /\ ret.calcul.jours_hors_periode =
                get_jours_hors_periode_principale(cache, periodes, ParametresResolus,
                    args.user, args.annee, {}).ret

\* The days of the periods of the call under way that are counted, a holiday
\* being one of the year of the call, and lie outside 1 May..31 October
JoursHorsDeLUnion ==
    { d \in UNION { PeriodesDeLAppel[i].date_debut..PeriodesDeLAppel[i].date_fin :
                       i \in DOMAIN PeriodesDeLAppel } :
         /\ CompteSelonSpec(d, JoursDeLAppel, args.annee)
         /\ Month(d) \notin 5..10 }

\* C28: no calendar day is counted more than once: for any set of annual
\* periods a user can store for a year through PeriodeCongeForm,
\* get_jours_hors_periode_principale is at most the number of counted days
\* outside the main period in the union of the periods' date ranges.
C28_AucunJourCompteDeuxFois ==
    pc = "hors_fait" => ret <= Cardinality(JoursHorsDeLUnion)

---------------------------------------------------------------------------
(* Claims on the views *)

\* The request under way is for a view of the periods that takes a pk
VueDUnePeriode == args.vue \in {"periode_update_view", "periode_delete_view"}

\* The request under way is for a view of the cycles that takes a pk
VueDUnCycle == args.vue \in {"cycle_update_view", "cycle_delete_view"}

\* The pk of the request names a record of a user other than the requester
NommeLeRecordDUnAutre ==
    \/ /\ VueDUnePeriode
       /\ args.pk \in DOMAIN args.periodes
       /\ args.periodes[args.pk].user # args.user
    \/ /\ VueDUnCycle
       /\ args.pk \in DOMAIN args.cycles
       /\ args.pk[1] # args.user

\* The pk of the request names a record of the requester
NommeSonRecord ==
    \/ /\ VueDUnePeriode
       /\ args.pk \in DOMAIN args.periodes
       /\ args.periodes[args.pk].user = args.user
    \/ /\ VueDUnCycle
       /\ args.pk \in DOMAIN args.cycles
       /\ args.pk[1] = args.user

\* The rows of a table of periods that belong to other users than u
PeriodesDesAutres(table, u) == SelectSeq(table, LAMBDA p : p.user # u)

\* The records of a table keyed by (user, year), or the entries of the cache
\* keyed by (prefix, user, year), that belong to other users than u; place
\* is the place of the user in the key
DesAutres(f, place, u) == [k \in {x \in DOMAIN f : x[place] # u} |-> f[k]]

\* C24: a logged-in user reads, modifies and deletes only their own weekly
\* cycles and leave periods: a request, GET or POST, to a view that modifies
\* or deletes, naming the record of another user, answers 404 and leaves the
\* tables and the cache as they were; a request naming a record of the
\* requester is not answered 404; and no request changes the records or the
\* cached results of the other users.
C24_SeulementSesRecords ==
    pc = "vue_repondue" =>
        /\ NommeLeRecordDUnAutre =>
              /\ ret.status = 404
              /\ periodes = args.periodes
              /\ cycles = args.cycles
              /\ cache_api = args.cache_api
        /\ NommeSonRecord => ret.status \in {200, 302}
        /\ PeriodesDesAutres(periodes, args.user)
              = PeriodesDesAutres(args.periodes, args.user)
        /\ DesAutres(cycles, 1, args.user) = DesAutres(args.cycles, 1, args.user)
        /\ DesAutres(cache_api, 2, args.user) = DesAutres(args.cache_api, 2, args.user)

\* C24 witness: user 1 has a period and a cached calculation, user 2 has
\* posted to periode_delete_view with the pk of that period and has been
\* answered 404, the period and the cached calculation being still there.
C24_Witness ==
    /\ pc = "vue_repondue"
    /\ args.vue = "periode_delete_view" /\ args.methode = "POST"
    /\ args.user = 2
    /\ args.pk \in DOMAIN args.periodes
    /\ args.periodes[args.pk].user = 1
    /\ cle("calcul_fractionnement", 1, 2024) \in DOMAIN args.cache_api
    /\ ret.status = 404
    /\ periodes = args.periodes
    /\ cache_api = args.cache_api

\* C27: after any sequence of creations, modifications (a modification that
\* moves date_debut into another civil year included) and deletions of leave
\* periods through the views, interleaved with reads of the API, the
\* response of api_calcul_fractionnement for a year equals
\* calculer_fractionnement_complet evaluated on the current records of the
\* user: no cached result is served once the records it was derived from
\* have changed.
C27_CacheJamaisPerime ==
    (pc = "api_lu" /\ ret.status = 200) =>
        ret.body = calculer_fractionnement_complet(cache, periodes, parametres,
                       args.user, args.data, {}).ret

===========================================================================
